---- MODULE Spec2Model ----
(***************************************************************************)
(* State-machine model of the moving-mesh core of SWIFT (ShadowSWIFT):     *)
(*   - the 2-D Voronoi grid construction (voronoi_build, voronoi_add_pair) *)
(*     of src/src/shadowswift/algorithm2d/voronoi.h, and                   *)
(*   - the per-face flux exchange (runner_iact_flux_exchange) of           *)
(*     src/src/hydro/Shadowswift/hydro_iact.h.                             *)
(*                                                                         *)
(* Floating-point coordinates are modelled by integers: the tessellations  *)
(* below are chosen so that every circumcenter, midpoint, face length and  *)
(* fan-triangle area the code computes is an exact integer.                *)
(*                                                                         *)
(* Modelled next to these: the radiative-transfer debugging checks of      *)
(* src/src/rt/debug/rt_debugging.h and the reconciliation of buffered map  *)
(* updates of src/src/lightcone_map.c, the scattering of self-interacting  *)
(* dark matter of src/src/sidm_iact.h and the sub-stepping of the          *)
(* thermochemistry of src/src/rt/GEAR/rt_thermochemistry.h.                *)
(***************************************************************************)
EXTENDS Integers, Sequences, FiniteSets, TLC

VARIABLES
  dcfg,            \* which Delaunay tessellation (struct delaunay *d) is built
  part_is_active,  \* const int *part_is_active
  parts,           \* struct part *parts (position and geometry of each generator)
  v,               \* struct voronoi *v
  b,               \* the frame of voronoi_build: position and locals
  call,            \* arguments and return value of the last voronoi_add_pair call
  reads,           \* Delaunay vertices whose coordinates have been read
  hp,              \* struct part of the hydro scheme: fluxes, time step, vmax
  fx,              \* the last runner_iact_flux_exchange call and the faces done
  rst,             \* the voronoi_reset calls: their number and the last dmin
  wk,              \* the worker threads: their flux exchange and how far it is
  rt,              \* a particle's RT debugging counters and the last sequence check
  eos,             \* rt_debugging_checks_end_of_step: engine sums and particles
  lm,              \* lightcone_map_update_from_buffer on every MPI rank
  sd,              \* the SIDM particles (struct sipart) and their gravity particles
  tc               \* the calls of rt_do_thermochemistry and the particle they update

vars ==
  <<dcfg, part_is_active, parts, v, b, call, reads, hp, fx, rst, wk, rt, eos, lm,
    sd, tc>>

vorVars == <<dcfg, part_is_active, parts, v, b, call, reads, rst>>

\* The variables of the parts of the program outside the grid and the
\* sequential flux exchange.
restVars == <<wk, rt, eos, lm, sd, tc>>

(***************************************************************************)
(* Bounds of the model.                                                    *)
(***************************************************************************)
\* Number of direct voronoi_add_pair calls made after a finished build.
MaxExtraCalls == 1

\* Number of flux exchanges in one behaviour.
MaxExchanges == 2

\* Number of voronoi_reset calls (rebuilds) in one behaviour.
MaxResets == 1

\* Number of voronoi_add_pair calls made in free order on a new grid.
MaxUnordered == 2

\* How often one stage of the RT pipeline runs between two resets.
MaxDone == 2

\* Number of gas particles, and of star particles, in the end-of-step check.
MaxParts == 2

\* Number of map updates a rank has buffered.
MaxContributions == 2

\* Number of calls of the gradient and the limiter pass.
MaxSlopeCalls == 2

\* The RT subcycles a particle runs between two hydro tasks.
MaxSubcycles == 3

\* Numbers of MPI ranks and of pixels for which the pixel routing is
\* tabulated.
MaxRanks == 3
MaxPixels == 6

\* The largest rt_props->max_tchem_recursion.
MaxRecursion == 2

(***************************************************************************)
(* Program constants.                                                      *)
(***************************************************************************)
\* Number of pair buckets: struct voronoi_pair *pairs[28].
NumSid == 28

\* sid of pairs between two particles of the local cell.
LocalSid == 13

\* Fictive sid under which all boundary pairs are stored.
BoundarySid == 27

\* The boundary flag of a sid: 1 << 5.
BoundaryBit == 32

\* Initial capacity of every pair bucket.
PairSizeInit == 10

\* MIN_REL_FACE_SIZE, in the integer length unit of the model.
MIN_REL_FACE_SIZE == 1

\* Content of memory that was allocated and never written.
Uninit == -7777

\* Result of a floating-point division by zero.
NaN == -9999

\* DBL_MAX, larger than every squared distance of the model.
DBL_MAX == 10000

(***************************************************************************)
(* C arrays are modelled by sequences; At reads element k (0-based).       *)
(***************************************************************************)
At(s, k) == s[k + 1]

Min2(x, y) == IF x <= y THEN x ELSE y

Max2(x, y) == IF x >= y THEN x ELSE y

Abs(x) == IF x < 0 THEN -x ELSE x

RECURSIVE ISqrtFrom(_, _)
ISqrtFrom(n, r) == IF (r + 1) * (r + 1) > n THEN r ELSE ISqrtFrom(n, r + 1)

\* sqrt() on the integers of the model (exact on the perfect squares that occur).
ISqrt(n) == ISqrtFrom(n, 0)

\* A floating-point division: dividing by zero does not trap.
FDiv(x, y) == IF y = 0 \/ x = NaN THEN NaN ELSE x \div y

(***************************************************************************)
(* The Delaunay tessellations handed to voronoi_build.  Vertex indices are *)
(* [vertex_start, vertex_end) local generators, [vertex_end, ngb_offset)   *)
(* dummy vertices, [ngb_offset, ...) ghosts.  Triangles are counter-       *)
(* clockwise, neighbours[k] lies opposite vertices[k], and triangles 0..2  *)
(* are the dummy triangles.                                                *)
(***************************************************************************)
CfgSlashFar ==
  [ vertex_start |-> 0, vertex_end |-> 4, ngb_offset |-> 7,
    triangle_index |-> 36,
    vertices |-> <<<<4, 4>>, <<8, 4>>, <<4, 8>>, <<8, 8>>, <<-400, -400>>, <<800, -400>>, <<-400, 800>>, <<0, 0>>, <<4, 0>>, <<8, 0>>, <<12, 0>>, <<0, 4>>, <<12, 4>>, <<0, 8>>, <<12, 8>>, <<0, 12>>, <<4, 12>>, <<8, 12>>, <<12, 12>>>>,
    triangles |-> <<
      [vertices |-> <<-1, -1, -1>>, neighbours |-> <<-1, -1, -1>>, index_in_neighbour |-> <<-1, -1, -1>>],
      [vertices |-> <<-1, -1, -1>>, neighbours |-> <<-1, -1, -1>>, index_in_neighbour |-> <<-1, -1, -1>>],
      [vertices |-> <<-1, -1, -1>>, neighbours |-> <<-1, -1, -1>>, index_in_neighbour |-> <<-1, -1, -1>>],
      [vertices |-> <<0, 1, 3>>, neighbours |-> <<9, 5, 4>>, index_in_neighbour |-> <<1, 0, 0>>],
      [vertices |-> <<8, 1, 0>>, neighbours |-> <<3, 7, 10>>, index_in_neighbour |-> <<2, 0, 1>>],
      [vertices |-> <<2, 0, 3>>, neighbours |-> <<3, 13, 6>>, index_in_neighbour |-> <<1, 1, 2>>],
      [vertices |-> <<0, 2, 11>>, neighbours |-> <<14, 8, 5>>, index_in_neighbour |-> <<2, 0, 2>>],
      [vertices |-> <<7, 8, 0>>, neighbours |-> <<4, 8, 21>>, index_in_neighbour |-> <<1, 2, 0>>],
      [vertices |-> <<7, 0, 11>>, neighbours |-> <<6, 22, 7>>, index_in_neighbour |-> <<1, 2, 1>>],
      [vertices |-> <<1, 14, 3>>, neighbours |-> <<17, 3, 12>>, index_in_neighbour |-> <<0, 0, 1>>],
      [vertices |-> <<8, 9, 1>>, neighbours |-> <<11, 4, 23>>, index_in_neighbour |-> <<0, 2, 1>>],
      [vertices |-> <<12, 1, 9>>, neighbours |-> <<10, 34, 12>>, index_in_neighbour |-> <<0, 0, 2>>],
      [vertices |-> <<1, 12, 14>>, neighbours |-> <<29, 9, 11>>, index_in_neighbour |-> <<1, 2, 2>>],
      [vertices |-> <<3, 17, 2>>, neighbours |-> <<16, 5, 18>>, index_in_neighbour |-> <<1, 1, 1>>],
      [vertices |-> <<11, 2, 13>>, neighbours |-> <<15, 25, 6>>, index_in_neighbour |-> <<1, 2, 0>>],
      [vertices |-> <<2, 16, 13>>, neighbours |-> <<35, 14, 16>>, index_in_neighbour |-> <<0, 0, 0>>],
      [vertices |-> <<17, 16, 2>>, neighbours |-> <<15, 13, 32>>, index_in_neighbour |-> <<2, 0, 1>>],
      [vertices |-> <<18, 3, 14>>, neighbours |-> <<9, 30, 18>>, index_in_neighbour |-> <<0, 0, 2>>],
      [vertices |-> <<3, 18, 17>>, neighbours |-> <<33, 13, 17>>, index_in_neighbour |-> <<0, 2, 2>>],
      [vertices |-> <<5, 10, 4>>, neighbours |-> <<24, 0, 28>>, index_in_neighbour |-> <<2, 0, 0>>],
      [vertices |-> <<6, 4, 15>>, neighbours |-> <<26, 31, 1>>, index_in_neighbour |-> <<2, 1, 0>>],
      [vertices |-> <<4, 8, 7>>, neighbours |-> <<7, 22, 23>>, index_in_neighbour |-> <<2, 1, 2>>],
      [vertices |-> <<7, 11, 4>>, neighbours |-> <<25, 21, 8>>, index_in_neighbour |-> <<1, 1, 1>>],
      [vertices |-> <<8, 4, 9>>, neighbours |-> <<24, 10, 21>>, index_in_neighbour |-> <<1, 2, 2>>],
      [vertices |-> <<4, 10, 9>>, neighbours |-> <<34, 23, 19>>, index_in_neighbour |-> <<1, 0, 0>>],
      [vertices |-> <<11, 13, 4>>, neighbours |-> <<26, 22, 14>>, index_in_neighbour |-> <<0, 0, 1>>],
      [vertices |-> <<15, 4, 13>>, neighbours |-> <<25, 35, 20>>, index_in_neighbour |-> <<0, 2, 0>>],
      [vertices |-> <<5, 6, 18>>, neighbours |-> <<33, 30, 2>>, index_in_neighbour |-> <<1, 2, 0>>],
      [vertices |-> <<12, 10, 5>>, neighbours |-> <<19, 29, 34>>, index_in_neighbour |-> <<2, 2, 2>>],
      [vertices |-> <<12, 5, 14>>, neighbours |-> <<30, 12, 28>>, index_in_neighbour |-> <<1, 0, 1>>],
      [vertices |-> <<5, 18, 14>>, neighbours |-> <<17, 29, 27>>, index_in_neighbour |-> <<1, 0, 1>>],
      [vertices |-> <<15, 16, 6>>, neighbours |-> <<32, 20, 35>>, index_in_neighbour |-> <<0, 1, 1>>],
      [vertices |-> <<17, 6, 16>>, neighbours |-> <<31, 16, 33>>, index_in_neighbour |-> <<0, 2, 2>>],
      [vertices |-> <<6, 17, 18>>, neighbours |-> <<18, 27, 32>>, index_in_neighbour |-> <<0, 0, 2>>],
      [vertices |-> <<10, 12, 9>>, neighbours |-> <<11, 24, 28>>, index_in_neighbour |-> <<1, 0, 2>>],
      [vertices |-> <<15, 13, 16>>, neighbours |-> <<15, 31, 26>>, index_in_neighbour |-> <<0, 2, 1>>]
    >>,
    vertex_triangles |-> <<3, 9, 15, 3, 19, 19, 31, 21, 7, 24, 19, 14, 34, 15, 29, 31, 31, 33, 18>>,
    vertex_triangle_index |-> <<0, 0, 0, 2, 2, 0, 2, 2, 1, 2, 1, 0, 1, 2, 2, 0, 1, 1, 1>>,
    ngb_cell_sids |-> <<12, 12, 14, 14, 10, 10, 16, 16, 12, 14, 10, 16>>,
    ngb_part_idx |-> <<10, 11, 12, 13, 14, 15, 16, 17, 18, 19, 20, 21>> ]

CfgSlashNear ==
  [ vertex_start |-> 0, vertex_end |-> 4, ngb_offset |-> 7,
    triangle_index |-> 36,
    vertices |-> <<<<4, 4>>, <<8, 4>>, <<4, 8>>, <<8, 8>>, <<-400, -400>>, <<800, -400>>, <<-400, 800>>, <<0, 0>>, <<4, 0>>, <<8, 0>>, <<12, 0>>, <<0, 4>>, <<12, 4>>, <<0, 8>>, <<12, 8>>, <<0, 12>>, <<4, 12>>, <<8, 12>>, <<12, 12>>>>,
    triangles |-> <<
      [vertices |-> <<-1, -1, -1>>, neighbours |-> <<-1, -1, -1>>, index_in_neighbour |-> <<-1, -1, -1>>],
      [vertices |-> <<-1, -1, -1>>, neighbours |-> <<-1, -1, -1>>, index_in_neighbour |-> <<-1, -1, -1>>],
      [vertices |-> <<-1, -1, -1>>, neighbours |-> <<-1, -1, -1>>, index_in_neighbour |-> <<-1, -1, -1>>],
      [vertices |-> <<1, 3, 0>>, neighbours |-> <<5, 4, 9>>, index_in_neighbour |-> <<2, 2, 0>>],
      [vertices |-> <<1, 0, 8>>, neighbours |-> <<7, 10, 3>>, index_in_neighbour |-> <<2, 0, 1>>],
      [vertices |-> <<0, 3, 2>>, neighbours |-> <<13, 6, 3>>, index_in_neighbour |-> <<0, 1, 0>>],
      [vertices |-> <<2, 11, 0>>, neighbours |-> <<8, 5, 14>>, index_in_neighbour |-> <<2, 1, 1>>],
      [vertices |-> <<8, 0, 7>>, neighbours |-> <<8, 21, 4>>, index_in_neighbour |-> <<1, 2, 0>>],
      [vertices |-> <<0, 11, 7>>, neighbours |-> <<22, 7, 6>>, index_in_neighbour |-> <<1, 0, 0>>],
      [vertices |-> <<14, 3, 1>>, neighbours |-> <<3, 12, 17>>, index_in_neighbour |-> <<2, 0, 2>>],
      [vertices |-> <<9, 1, 8>>, neighbours |-> <<4, 23, 11>>, index_in_neighbour |-> <<1, 0, 2>>],
      [vertices |-> <<1, 9, 12>>, neighbours |-> <<34, 12, 10>>, index_in_neighbour |-> <<2, 1, 2>>],
      [vertices |-> <<12, 14, 1>>, neighbours |-> <<9, 11, 29>>, index_in_neighbour |-> <<1, 1, 0>>],
      [vertices |-> <<17, 2, 3>>, neighbours |-> <<5, 18, 16>>, index_in_neighbour |-> <<0, 0, 0>>],
      [vertices |-> <<2, 13, 11>>, neighbours |-> <<25, 6, 15>>, index_in_neighbour |-> <<1, 2, 0>>],
      [vertices |-> <<16, 13, 2>>, neighbours |-> <<14, 16, 35>>, index_in_neighbour |-> <<2, 2, 2>>],
      [vertices |-> <<16, 2, 17>>, neighbours |-> <<13, 32, 15>>, index_in_neighbour |-> <<2, 0, 1>>],
      [vertices |-> <<3, 14, 18>>, neighbours |-> <<30, 18, 9>>, index_in_neighbour |-> <<2, 1, 2>>],
      [vertices |-> <<18, 17, 3>>, neighbours |-> <<13, 17, 33>>, index_in_neighbour |-> <<1, 1, 2>>],
      [vertices |-> <<10, 4, 5>>, neighbours |-> <<0, 28, 24>>, index_in_neighbour |-> <<0, 2, 1>>],
      [vertices |-> <<4, 15, 6>>, neighbours |-> <<31, 1, 26>>, index_in_neighbour |-> <<0, 0, 1>>],
      [vertices |-> <<8, 7, 4>>, neighbours |-> <<22, 23, 7>>, index_in_neighbour |-> <<0, 1, 1>>],
      [vertices |-> <<11, 4, 7>>, neighbours |-> <<21, 8, 25>>, index_in_neighbour |-> <<0, 0, 0>>],
      [vertices |-> <<4, 9, 8>>, neighbours |-> <<10, 21, 24>>, index_in_neighbour |-> <<1, 1, 0>>],
      [vertices |-> <<10, 9, 4>>, neighbours |-> <<23, 19, 34>>, index_in_neighbour |-> <<2, 2, 0>>],
      [vertices |-> <<13, 4, 11>>, neighbours |-> <<22, 14, 26>>, index_in_neighbour |-> <<2, 0, 2>>],
      [vertices |-> <<4, 13, 15>>, neighbours |-> <<35, 20, 25>>, index_in_neighbour |-> <<1, 2, 2>>],
      [vertices |-> <<6, 18, 5>>, neighbours |-> <<30, 2, 33>>, index_in_neighbour |-> <<1, 0, 0>>],
      [vertices |-> <<10, 5, 12>>, neighbours |-> <<29, 34, 19>>, index_in_neighbour |-> <<1, 1, 1>>],
      [vertices |-> <<5, 14, 12>>, neighbours |-> <<12, 28, 30>>, index_in_neighbour |-> <<2, 0, 0>>],
      [vertices |-> <<18, 14, 5>>, neighbours |-> <<29, 27, 17>>, index_in_neighbour |-> <<2, 0, 0>>],
      [vertices |-> <<16, 6, 15>>, neighbours |-> <<20, 35, 32>>, index_in_neighbour |-> <<0, 0, 2>>],
      [vertices |-> <<6, 16, 17>>, neighbours |-> <<16, 33, 31>>, index_in_neighbour |-> <<1, 1, 2>>],
      [vertices |-> <<17, 18, 6>>, neighbours |-> <<27, 32, 18>>, index_in_neighbour |-> <<2, 1, 2>>],
      [vertices |-> <<12, 9, 10>>, neighbours |-> <<24, 28, 11>>, index_in_neighbour |-> <<2, 1, 0>>],
      [vertices |-> <<13, 16, 15>>, neighbours |-> <<31, 26, 15>>, index_in_neighbour |-> <<1, 0, 2>>]
    >>,
    vertex_triangles |-> <<3, 9, 15, 3, 19, 19, 31, 21, 7, 24, 19, 14, 34, 15, 29, 31, 31, 33, 18>>,
    vertex_triangle_index |-> <<2, 2, 2, 1, 1, 2, 1, 1, 0, 1, 0, 2, 0, 1, 1, 2, 0, 0, 0>>,
    ngb_cell_sids |-> <<12, 36, 14, 46, 12, 45, 14, 0, 26, 58, 12, 14>>,
    ngb_part_idx |-> <<3, 2, 1, 0, 3, 2, 1, 0, 3, 2, 1, 0>> ]

CfgBackNear ==
  [ vertex_start |-> 1, vertex_end |-> 5, ngb_offset |-> 8,
    triangle_index |-> 36,
    vertices |-> <<<<0, 0>>, <<12, 12>>, <<4, 8>>, <<12, 8>>, <<4, 12>>, <<-400, -400>>, <<800, -400>>, <<-400, 800>>, <<0, 0>>, <<4, 0>>, <<12, 0>>, <<16, 0>>, <<0, 8>>, <<16, 8>>, <<0, 12>>, <<16, 12>>, <<0, 20>>, <<4, 20>>, <<12, 20>>, <<16, 20>>>>,
    triangles |-> <<
      [vertices |-> <<-1, -1, -1>>, neighbours |-> <<-1, -1, -1>>, index_in_neighbour |-> <<-1, -1, -1>>],
      [vertices |-> <<-1, -1, -1>>, neighbours |-> <<-1, -1, -1>>, index_in_neighbour |-> <<-1, -1, -1>>],
      [vertices |-> <<-1, -1, -1>>, neighbours |-> <<-1, -1, -1>>, index_in_neighbour |-> <<-1, -1, -1>>],
      [vertices |-> <<3, 1, 4>>, neighbours |-> <<5, 9, 4>>, index_in_neighbour |-> <<0, 1, 2>>],
      [vertices |-> <<1, 3, 13>>, neighbours |-> <<16, 6, 3>>, index_in_neighbour |-> <<1, 0, 2>>],
      [vertices |-> <<17, 4, 1>>, neighbours |-> <<3, 8, 18>>, index_in_neighbour |-> <<0, 0, 0>>],
      [vertices |-> <<15, 1, 13>>, neighbours |-> <<4, 29, 7>>, index_in_neighbour |-> <<1, 2, 2>>],
      [vertices |-> <<1, 15, 18>>, neighbours |-> <<35, 8, 6>>, index_in_neighbour |-> <<0, 1, 2>>],
      [vertices |-> <<18, 17, 1>>, neighbours |-> <<5, 7, 32>>, index_in_neighbour |-> <<1, 1, 2>>],
      [vertices |-> <<4, 2, 3>>, neighbours |-> <<10, 3, 11>>, index_in_neighbour |-> <<1, 1, 1>>],
      [vertices |-> <<2, 10, 3>>, neighbours |-> <<15, 9, 12>>, index_in_neighbour |-> <<0, 0, 2>>],
      [vertices |-> <<4, 14, 2>>, neighbours |-> <<14, 9, 17>>, index_in_neighbour |-> <<1, 2, 0>>],
      [vertices |-> <<10, 2, 9>>, neighbours |-> <<13, 23, 10>>, index_in_neighbour |-> <<1, 2, 2>>],
      [vertices |-> <<2, 12, 9>>, neighbours |-> <<34, 12, 14>>, index_in_neighbour |-> <<0, 0, 0>>],
      [vertices |-> <<14, 12, 2>>, neighbours |-> <<13, 11, 25>>, index_in_neighbour |-> <<2, 0, 0>>],
      [vertices |-> <<11, 3, 10>>, neighbours |-> <<10, 24, 16>>, index_in_neighbour |-> <<0, 1, 2>>],
      [vertices |-> <<3, 11, 13>>, neighbours |-> <<28, 4, 15>>, index_in_neighbour |-> <<0, 0, 2>>],
      [vertices |-> <<16, 14, 4>>, neighbours |-> <<11, 18, 26>>, index_in_neighbour |-> <<2, 2, 2>>],
      [vertices |-> <<16, 4, 17>>, neighbours |-> <<5, 31, 17>>, index_in_neighbour |-> <<2, 0, 1>>],
      [vertices |-> <<5, 6, 11>>, neighbours |-> <<28, 24, 0>>, index_in_neighbour |-> <<1, 0, 0>>],
      [vertices |-> <<16, 7, 5>>, neighbours |-> <<1, 26, 31>>, index_in_neighbour |-> <<0, 0, 2>>],
      [vertices |-> <<8, 5, 9>>, neighbours |-> <<23, 34, 22>>, index_in_neighbour |-> <<0, 2, 2>>],
      [vertices |-> <<5, 8, 12>>, neighbours |-> <<34, 25, 21>>, index_in_neighbour |-> <<1, 2, 2>>],
      [vertices |-> <<10, 9, 5>>, neighbours |-> <<21, 24, 12>>, index_in_neighbour |-> <<0, 2, 1>>],
      [vertices |-> <<10, 5, 11>>, neighbours |-> <<19, 15, 23>>, index_in_neighbour |-> <<1, 1, 1>>],
      [vertices |-> <<5, 12, 14>>, neighbours |-> <<14, 26, 22>>, index_in_neighbour |-> <<2, 1, 1>>],
      [vertices |-> <<14, 16, 5>>, neighbours |-> <<20, 25, 17>>, index_in_neighbour |-> <<1, 1, 2>>],
      [vertices |-> <<19, 6, 7>>, neighbours |-> <<2, 33, 30>>, index_in_neighbour |-> <<0, 2, 0>>],
      [vertices |-> <<6, 13, 11>>, neighbours |-> <<16, 19, 29>>, index_in_neighbour |-> <<0, 0, 0>>],
      [vertices |-> <<15, 13, 6>>, neighbours |-> <<28, 30, 6>>, index_in_neighbour |-> <<2, 2, 1>>],
      [vertices |-> <<15, 6, 19>>, neighbours |-> <<27, 35, 29>>, index_in_neighbour |-> <<2, 1, 1>>],
      [vertices |-> <<7, 16, 17>>, neighbours |-> <<18, 32, 20>>, index_in_neighbour |-> <<1, 1, 2>>],
      [vertices |-> <<17, 18, 7>>, neighbours |-> <<33, 31, 8>>, index_in_neighbour |-> <<0, 1, 2>>],
      [vertices |-> <<19, 7, 18>>, neighbours |-> <<32, 35, 27>>, index_in_neighbour |-> <<0, 2, 1>>],
      [vertices |-> <<8, 9, 12>>, neighbours |-> <<13, 22, 21>>, index_in_neighbour |-> <<0, 0, 1>>],
      [vertices |-> <<19, 18, 15>>, neighbours |-> <<7, 30, 33>>, index_in_neighbour |-> <<0, 1, 1>>]
    >>,
    vertex_triangles |-> <<-1, 5, 13, 3, 9, 21, 28, 33, 22, 23, 10, 19, 34, 6, 25, 6, 20, 32, 8, 33>>,
    vertex_triangle_index |-> <<-1, 2, 0, 0, 0, 1, 0, 1, 1, 1, 1, 2, 2, 2, 2, 0, 0, 0, 0, 0>>,
    ngb_cell_sids |-> <<12, 36, 14, 46, 12, 45, 14, 0, 26, 58, 12, 14>>,
    ngb_part_idx |-> <<1, 0, 3, 2, 0, 1, 2, 3, 2, 3, 0, 1>> ]

CfgOpenHalo ==
  [ vertex_start |-> 0, vertex_end |-> 4, ngb_offset |-> 7,
    triangle_index |-> 28,
    vertices |-> <<<<4, 4>>, <<8, 4>>, <<4, 8>>, <<8, 8>>, <<-400, -400>>, <<800, -400>>, <<-400, 800>>, <<0, 0>>, <<4, 0>>, <<8, 0>>, <<0, 4>>, <<0, 8>>, <<0, 12>>, <<4, 12>>, <<8, 12>>>>,
    triangles |-> <<
      [vertices |-> <<-1, -1, -1>>, neighbours |-> <<-1, -1, -1>>, index_in_neighbour |-> <<-1, -1, -1>>],
      [vertices |-> <<-1, -1, -1>>, neighbours |-> <<-1, -1, -1>>, index_in_neighbour |-> <<-1, -1, -1>>],
      [vertices |-> <<-1, -1, -1>>, neighbours |-> <<-1, -1, -1>>, index_in_neighbour |-> <<-1, -1, -1>>],
      [vertices |-> <<0, 1, 3>>, neighbours |-> <<9, 5, 4>>, index_in_neighbour |-> <<1, 0, 0>>],
      [vertices |-> <<8, 1, 0>>, neighbours |-> <<3, 7, 11>>, index_in_neighbour |-> <<2, 0, 0>>],
      [vertices |-> <<2, 0, 3>>, neighbours |-> <<3, 12, 6>>, index_in_neighbour |-> <<1, 2, 2>>],
      [vertices |-> <<0, 2, 10>>, neighbours |-> <<13, 8, 5>>, index_in_neighbour |-> <<0, 0, 2>>],
      [vertices |-> <<7, 8, 0>>, neighbours |-> <<4, 8, 19>>, index_in_neighbour |-> <<1, 2, 2>>],
      [vertices |-> <<7, 0, 10>>, neighbours |-> <<6, 20, 7>>, index_in_neighbour |-> <<1, 1, 1>>],
      [vertices |-> <<1, 5, 3>>, neighbours |-> <<16, 3, 10>>, index_in_neighbour |-> <<1, 0, 0>>],
      [vertices |-> <<9, 5, 1>>, neighbours |-> <<9, 11, 17>>, index_in_neighbour |-> <<2, 2, 1>>],
      [vertices |-> <<9, 1, 8>>, neighbours |-> <<4, 21, 10>>, index_in_neighbour |-> <<2, 0, 1>>],
      [vertices |-> <<2, 3, 14>>, neighbours |-> <<16, 15, 5>>, index_in_neighbour |-> <<0, 2, 1>>],
      [vertices |-> <<11, 10, 2>>, neighbours |-> <<6, 14, 22>>, index_in_neighbour |-> <<0, 2, 2>>],
      [vertices |-> <<11, 2, 13>>, neighbours |-> <<15, 27, 13>>, index_in_neighbour |-> <<1, 2, 1>>],
      [vertices |-> <<2, 14, 13>>, neighbours |-> <<26, 14, 12>>, index_in_neighbour |-> <<1, 0, 1>>],
      [vertices |-> <<5, 14, 3>>, neighbours |-> <<12, 9, 24>>, index_in_neighbour |-> <<0, 0, 1>>],
      [vertices |-> <<9, 4, 5>>, neighbours |-> <<0, 10, 21>>, index_in_neighbour |-> <<0, 2, 2>>],
      [vertices |-> <<4, 12, 6>>, neighbours |-> <<25, 1, 23>>, index_in_neighbour |-> <<1, 0, 2>>],
      [vertices |-> <<8, 7, 4>>, neighbours |-> <<20, 21, 7>>, index_in_neighbour |-> <<0, 1, 2>>],
      [vertices |-> <<10, 4, 7>>, neighbours |-> <<19, 8, 22>>, index_in_neighbour |-> <<0, 1, 1>>],
      [vertices |-> <<4, 9, 8>>, neighbours |-> <<11, 19, 17>>, index_in_neighbour |-> <<1, 1, 2>>],
      [vertices |-> <<10, 11, 4>>, neighbours |-> <<23, 20, 13>>, index_in_neighbour |-> <<0, 2, 2>>],
      [vertices |-> <<12, 4, 11>>, neighbours |-> <<22, 27, 18>>, index_in_neighbour |-> <<0, 1, 2>>],
      [vertices |-> <<5, 6, 14>>, neighbours |-> <<26, 16, 2>>, index_in_neighbour |-> <<2, 2, 0>>],
      [vertices |-> <<12, 13, 6>>, neighbours |-> <<26, 18, 27>>, index_in_neighbour |-> <<0, 0, 0>>],
      [vertices |-> <<14, 6, 13>>, neighbours |-> <<25, 15, 24>>, index_in_neighbour |-> <<0, 0, 0>>],
      [vertices |-> <<11, 13, 12>>, neighbours |-> <<25, 23, 14>>, index_in_neighbour |-> <<2, 1, 1>>]
    >>,
    vertex_triangles |-> <<3, 9, 14, 5, 18, 9, 18, 19, 7, 17, 6, 22, 18, 15, 24>>,
    vertex_triangle_index |-> <<0, 0, 1, 2, 0, 1, 2, 1, 1, 0, 2, 1, 1, 2, 2>>,
    ngb_cell_sids |-> <<12, 12, 14, 14, 10, 10, 16, 16>>,
    ngb_part_idx |-> <<3, 2, 1, 0, 3, 2, 1, 0>> ]

\* The tessellation of CfgSlashNear next to the boundary of the box: every
\* ghost is a boundary particle, its sid carries the boundary flag 1 << 5.
CfgSlashWall ==
  [CfgSlashNear EXCEPT
     !.ngb_cell_sids = <<44, 44, 46, 46, 42, 42, 48, 48, 44, 46, 42, 48>>]


\* A collapsed input: the points of CfgSlashFar moved so that generator 0
\* and the six neighbours of its ring lie on one circle (centre <<7, 8>>,
\* radius 5).  All triangles of the ring have the same circumcenter and the
\* fan triangles of the cell have no area.
CfgCollapsed ==
  [CfgSlashFar EXCEPT
     !.vertices = <<<<4, 4>>, <<12, 8>>, <<7, 13>>, <<11, 11>>, <<-400, -400>>, <<800, -400>>, <<-400, 800>>, <<3, 5>>, <<10, 4>>, <<8, 0>>, <<12, 0>>, <<2, 8>>, <<12, 4>>, <<0, 8>>, <<12, 8>>, <<0, 12>>, <<4, 12>>, <<8, 12>>, <<12, 12>>>>]

\* Four generators at the corners of a square of side 8 and one at its
\* centre; there are no ghosts, the corners touch the dummy vertices.
CfgUnitSquare ==
  [ vertex_start |-> 0, vertex_end |-> 5, ngb_offset |-> 8,
    triangle_index |-> 14,
    vertices |-> <<<<0, 0>>, <<8, 0>>, <<0, 8>>, <<8, 8>>, <<4, 4>>, <<-400, -400>>, <<800, -400>>, <<-400, 800>>>>,
    triangles |-> <<
      [vertices |-> <<-1, -1, -1>>, neighbours |-> <<-1, -1, -1>>, index_in_neighbour |-> <<-1, -1, -1>>],
      [vertices |-> <<-1, -1, -1>>, neighbours |-> <<-1, -1, -1>>, index_in_neighbour |-> <<-1, -1, -1>>],
      [vertices |-> <<-1, -1, -1>>, neighbours |-> <<-1, -1, -1>>, index_in_neighbour |-> <<-1, -1, -1>>],
      [vertices |-> <<0, 1, 4>>, neighbours |-> <<7, 5, 4>>, index_in_neighbour |-> <<0, 0, 0>>],
      [vertices |-> <<5, 1, 0>>, neighbours |-> <<3, 6, 9>>, index_in_neighbour |-> <<2, 1, 2>>],
      [vertices |-> <<2, 0, 4>>, neighbours |-> <<3, 10, 6>>, index_in_neighbour |-> <<1, 1, 2>>],
      [vertices |-> <<0, 2, 5>>, neighbours |-> <<12, 4, 5>>, index_in_neighbour |-> <<1, 1, 2>>],
      [vertices |-> <<3, 4, 1>>, neighbours |-> <<3, 8, 10>>, index_in_neighbour |-> <<0, 2, 2>>],
      [vertices |-> <<3, 1, 6>>, neighbours |-> <<9, 13, 7>>, index_in_neighbour |-> <<1, 1, 1>>],
      [vertices |-> <<1, 5, 6>>, neighbours |-> <<0, 8, 4>>, index_in_neighbour |-> <<0, 0, 2>>],
      [vertices |-> <<4, 3, 2>>, neighbours |-> <<11, 5, 7>>, index_in_neighbour |-> <<0, 1, 2>>],
      [vertices |-> <<7, 2, 3>>, neighbours |-> <<10, 13, 12>>, index_in_neighbour |-> <<0, 0, 2>>],
      [vertices |-> <<2, 7, 5>>, neighbours |-> <<1, 6, 11>>, index_in_neighbour |-> <<0, 0, 2>>],
      [vertices |-> <<6, 7, 3>>, neighbours |-> <<11, 8, 2>>, index_in_neighbour |-> <<1, 1, 0>>]
    >>,
    vertex_triangles |-> <<3, 7, 12, 8, 3, 9, 8, 13>>,
    vertex_triangle_index |-> <<0, 2, 0, 0, 2, 1, 2, 1>>,
    ngb_cell_sids |-> <<>>,
    ngb_part_idx |-> <<>> ]

Delaunays ==
  <<CfgSlashFar, CfgSlashNear, CfgBackNear, CfgOpenHalo, CfgSlashWall,
    CfgCollapsed, CfgUnitSquare>>

\* The tessellation under construction: struct delaunay *d.
D == Delaunays[dcfg]

\* int count: the number of hydro particles in parts.
Count(dd) == dd.vertex_end - dd.vertex_start

Triangle(dd, t) == At(dd.triangles, t)

Vertex(dd, k) == At(dd.vertices, k)

IsLocal(dd, k) == k >= dd.vertex_start /\ k < dd.vertex_end

\* Faulty variant: the two bounds of the dummy range are swapped.
IsDummySwappedBounds(dd, k) == k >= dd.ngb_offset /\ k < dd.vertex_end

\* A dummy (placeholder) vertex.
IsDummy(dd, k) == k >= dd.vertex_end /\ k < dd.ngb_offset

IsGhost(dd, k) == k >= dd.ngb_offset

(***************************************************************************)
(* Geometry kernels.                                                       *)
(***************************************************************************)
\* Midpoint of the face (ax,ay)-(bx,by).
FaceMidpoint(ax, ay, bx, by) == <<(ax + bx) \div 2, (ay + by) \div 2, 0>>

\* Surface area (length) of the face (ax,ay)-(bx,by).
voronoi_compute_midpoint_area_face(ax, ay, bx, by) ==
  LET sx == bx - ax
      sy == by - ay
  IN  ISqrt(sx * sx + sy * sy)

\* Circumcenter of the triangle through three points.
voronoi_compute_circumcenter(v0x, v0y, v1x, v1y, v2x, v2y) ==
  LET ax == v1x - v0x
      ay == v1y - v0y
      bx == v2x - v0x
      by == v2y - v0y
      DD == 2 * (ax * by - ay * bx)
      a2 == ax * ax + ay * ay
      b2 == bx * bx + by * by
      Rx == FDiv(by * a2 - ay * b2, DD)
      Ry == FDiv(ax * b2 - bx * a2, DD)
  IN  IF DD = 0 THEN <<NaN, NaN>> ELSE <<v0x + Rx, v0y + Ry>>

\* Centroid of a triangle (geometry2d_compute_centroid_triangle).
TriangleCentroid(ax, ay, bx, by, cx, cy) ==
  <<(ax + bx + cx) \div 3, (ay + by + cy) \div 3>>

\* Faulty variant: the factor one half is missing.
TriangleVolumeDoubled(ax, ay, bx, by, cx, cy) ==
  Abs((bx - ax) * (cy - ay) - (cx - ax) * (by - ay))

\* Volume (area) of the triangle through three points.
voronoi_compute_centroid_volume_triangle(ax, ay, bx, by, cx, cy) ==
  LET s10x == bx - ax
      s10y == by - ay
      s20x == cx - ax
      s20y == cy - ay
  IN  Abs(s10x * s20y - s20x * s10y) \div 2

(***************************************************************************)
(* struct voronoi.  pairs[sid] is the memory of bucket sid: a sequence     *)
(* holding every slot written so far (slots survive a reset), of which the *)
(* first pair_index[sid] are the pairs of the current grid.                *)
(* cell_pair_connections is the int2 queue: values (written slots) and     *)
(* index (current length).  A connection is <<_0, _1>> = <<slot, sid>>.    *)
(***************************************************************************)
Sids == 0 .. (NumSid - 1)

UninitPair ==
  [left_idx |-> Uninit, right_idx |-> Uninit, sid |-> Uninit,
   surface_area |-> Uninit, midpoint |-> <<Uninit, Uninit, Uninit>>]

UninitConnection == <<Uninit, Uninit>>

\* v->pairs[sid][slot]
PairAt(vv, sid, slot) ==
  IF sid \in Sids /\ slot >= 0 /\ slot < Len(vv.pairs[sid])
    THEN vv.pairs[sid][slot + 1]
    ELSE UninitPair

\* v->cell_pair_connections.values[k]
ConnAt(vv, k) ==
  IF k >= 0 /\ k < Len(vv.cell_pair_connections.values)
    THEN vv.cell_pair_connections.values[k + 1]
    ELSE UninitConnection

\* Write element k of a C array whose written part is the sequence s.
WriteAt(s, k, x) == IF k < Len(s) THEN [s EXCEPT ![k + 1] = x] ELSE Append(s, x)

int2_lifo_queue_push(q, c) ==
  [values |-> WriteAt(q.values, q.index, c), index |-> q.index + 1]

int2_lifo_queue_reset(q) == [q EXCEPT !.index = 0]

voronoi_malloc(number_of_cells, dmin) ==
  [pairs |-> [s \in Sids |-> <<>>],
   pair_index |-> [s \in Sids |-> 0],
   pair_size |-> [s \in Sids |-> PairSizeInit],
   cell_pair_connections |-> [values |-> <<>>, index |-> 0],
   active |-> 1,
   min_surface_area |-> MIN_REL_FACE_SIZE * dmin]

\* Faulty variant: the reset also gives the capacity of the buckets back.
voronoi_reset_shrinks(vv, number_of_cells, dmin) ==
  [vv EXCEPT !.pair_index = [s \in Sids |-> 0],
             !.pair_size = [s \in Sids |-> PairSizeInit],
             !.cell_pair_connections = int2_lifo_queue_reset(@),
             !.min_surface_area = MIN_REL_FACE_SIZE * dmin]

\* The grid after voronoi_reset: the pairs and the connections stay in memory.
voronoi_reset(vv, number_of_cells, dmin) ==
  [vv EXCEPT !.pair_index = [s \in Sids |-> 0],
             !.cell_pair_connections = int2_lifo_queue_reset(@),
             !.min_surface_area = MIN_REL_FACE_SIZE * dmin]

\* No voronoi_reset call was made yet.
NoReset == [n |-> 0, dmin |-> 0]

\* The worker threads (struct runner).
Workers == {1, 2}

\* No worker has taken a flux exchange.
NoWorkers ==
  [w \in Workers |->
     [pc |-> "idle", stage |-> 0, i |-> 0, j |-> 0, F |-> <<0, 0, 0, 0, 0>>,
      vmax |-> 0, totflux |-> <<0, 0, 0, 0, 0>>, loaded |-> <<0, 0, 0, 0, 0>>]]

\* The RT debugging counters of a particle (struct part, rt_data.debug_*).
RtPart(drifted, kicked, nsubcycles, zeroth, calls) ==
  [debug_drifted |-> drifted, debug_kicked |-> kicked,
   debug_nsubcycles |-> nsubcycles,
   debug_rt_zeroth_cycle_on_main_step |-> zeroth,
   debug_calls_iact_gradient_interaction |-> calls,
   debug_calls_iact_transport_interaction |-> calls,
   debug_injection_done |-> 0, debug_gradients_done |-> 0,
   debug_transport_done |-> 0, debug_thermochem_done |-> 0]

\* No sequence check has been made; trace lists the stages run since the
\* last reset.
NoRt ==
  [p |-> RtPart(1, 1, 0, 1, 0), pc |-> "run", loc |-> -1, err |-> "none",
   trace |-> <<>>]

\* The end-of-step check is not running.
NoEndOfStep ==
  [pc |-> "idle", policy_rt |-> 0, with_mpi |-> 0,
   rt_props |-> [debug_radiation_emitted_this_step |-> 0,
                 debug_radiation_absorbed_this_step |-> 0,
                 debug_radiation_emitted_tot |-> 0,
                 debug_radiation_absorbed_tot |-> 0],
   parts |-> <<>>, sparts |-> <<>>, mapped |-> {},
   entry |-> [parts |-> <<>>, sparts |-> <<>>]]

\* No lightcone map on any rank.
NoLightcone ==
  [map |-> <<>>, before |-> 0, sendbuf |-> <<>>, recvbuf |-> <<>>, i |-> <<>>,
   pc |-> <<>>]

(***************************************************************************)
(* voronoi_add_pair.  The result is the new grid, the return value and     *)
(* which path was taken: "search" (the pair was already added by the right *)
(* generator: look it up) or "insert" (store a new pair).                  *)
(***************************************************************************)
\* Faulty variant: the pair is never looked up, every call stores a new pair.
AlreadyAddedNever(dd, act, del_vert_idx, ngb_del_vert_idx) ==
  /\ ngb_del_vert_idx < dd.ngb_offset
  /\ FALSE

\* Faulty variant: the lookup is also made in an inactive right generator.
AlreadyAddedIgnoresActive(dd, act, del_vert_idx, ngb_del_vert_idx) ==
  /\ ngb_del_vert_idx < dd.ngb_offset
  /\ ngb_del_vert_idx < del_vert_idx
  /\ act[ngb_del_vert_idx - dd.vertex_start] \in {0, 1}

\* Faulty variant: the comparison of the two indices is reversed.
AlreadyAddedReversed(dd, act, del_vert_idx, ngb_del_vert_idx) ==
  /\ ngb_del_vert_idx < dd.ngb_offset
  /\ ngb_del_vert_idx > del_vert_idx
  /\ act[ngb_del_vert_idx - dd.vertex_start] = 1

\* The test that selects the lookup path.
AlreadyAdded(dd, act, del_vert_idx, ngb_del_vert_idx) ==
  /\ ngb_del_vert_idx < dd.ngb_offset
  /\ ngb_del_vert_idx < del_vert_idx
  /\ act[ngb_del_vert_idx - dd.vertex_start] = 1

\* Faulty variant: the loop forgets pair_connections_offset.
SearchHitsNoOffset(vv, pp, right_part_idx, left_part_idx) ==
  LET ngb == pp[right_part_idx]
  IN  { i \in 0 .. (ngb.geometry.nface - 1) :
          LET connection == ConnAt(vv, i)
          IN  PairAt(vv, connection[2], connection[1]).right_idx = left_part_idx }

\* The loop over the connections of the right generator: the offsets i whose
\* pair has right_idx equal to the left generator.
SearchHits(vv, pp, right_part_idx, left_part_idx) ==
  LET ngb == pp[right_part_idx]
  IN  { i \in 0 .. (ngb.geometry.nface - 1) :
          LET connection == ConnAt(vv, ngb.geometry.pair_connections_offset + i)
          IN  PairAt(vv, connection[2], connection[1]).right_idx = left_part_idx }

SetMin(S) == CHOOSE x \in S : \A y \in S : x <= y

AddPairSearch(vv, dd, del_vert_idx, ngb_del_vert_idx, pp) ==
  LET right_part_idx == ngb_del_vert_idx - dd.vertex_start
      left_part_idx == del_vert_idx - dd.vertex_start
      hits == SearchHits(vv, pp, right_part_idx, left_part_idx)
  IN  IF hits # {}
        THEN LET connection ==
                   ConnAt(vv, pp[right_part_idx].geometry.pair_connections_offset
                                + SetMin(hits))
             IN  [v |-> [vv EXCEPT !.cell_pair_connections =
                                     int2_lifo_queue_push(@, connection)],
                  ret |-> 1, kind |-> "search"]
        ELSE [v |-> vv, ret |-> 0, kind |-> "search"]

\* sid & 1 << 5
IsBoundarySid(sid) == (sid \div BoundaryBit) % 2 = 1

\* Faulty variant: the boundary flag is not cleared from the stored sid.
ActualSidKeepsFlag(sid) == sid

\* actual_sid: the sid with the boundary flag cleared.
ActualSid(sid) == IF IsBoundarySid(sid) THEN sid - BoundaryBit ELSE sid

\* Faulty variant: the pairs of the local cell are kept in bucket 0.
BucketSidSelfFirst(sid) ==
  IF IsBoundarySid(sid) THEN BoundarySid ELSE IF sid = LocalSid THEN 0 ELSE sid

\* The bucket a pair of this sid is stored in.
BucketSid(sid) == IF IsBoundarySid(sid) THEN BoundarySid ELSE sid

\* Faulty variant: a full bucket grows by one slot.
AddPairInsertGrowsByOne(vv, dd, del_vert_idx, ngb_del_vert_idx, ax, ay, bx, by) ==
  LET local == ngb_del_vert_idx < dd.ngb_offset
      sid0 == IF local THEN LocalSid
              ELSE At(dd.ngb_cell_sids, ngb_del_vert_idx - dd.ngb_offset)
      right_part_idx ==
              IF local THEN ngb_del_vert_idx - dd.vertex_start
              ELSE At(dd.ngb_part_idx, ngb_del_vert_idx - dd.ngb_offset)
      actual_sid == ActualSid(sid0)
      sid == BucketSid(sid0)
      slot == vv.pair_index[sid]
      size == IF vv.pair_index[sid] = vv.pair_size[sid]
                THEN vv.pair_size[sid] + 1 ELSE vv.pair_size[sid]
      surface_area == voronoi_compute_midpoint_area_face(ax, ay, bx, by)
      \* the midpoint is written into the slot before the area is tested
      touched == [PairAt(vv, sid, slot) EXCEPT
                    !.midpoint = FaceMidpoint(ax, ay, bx, by)]
      this_pair == [touched EXCEPT
                      !.surface_area = surface_area,
                      !.left_idx = del_vert_idx - dd.vertex_start,
                      !.right_idx = right_part_idx,
                      !.sid = actual_sid]
  IN  IF surface_area < vv.min_surface_area
        THEN [v |-> [vv EXCEPT !.pair_size[sid] = size,
                               !.pairs[sid] = WriteAt(@, slot, touched)],
              ret |-> 0, kind |-> "insert"]
        ELSE [v |-> [vv EXCEPT !.pair_size[sid] = size,
                               !.pairs[sid] = WriteAt(@, slot, this_pair),
                               !.cell_pair_connections =
                                  int2_lifo_queue_push(@, <<slot, sid>>),
                               !.pair_index[sid] = slot + 1],
              ret |-> 1, kind |-> "insert"]

\* The insertion path of voronoi_add_pair.
AddPairInsert(vv, dd, del_vert_idx, ngb_del_vert_idx, ax, ay, bx, by) ==
  LET local == ngb_del_vert_idx < dd.ngb_offset
      sid0 == IF local THEN LocalSid
              ELSE At(dd.ngb_cell_sids, ngb_del_vert_idx - dd.ngb_offset)
      right_part_idx ==
              IF local THEN ngb_del_vert_idx - dd.vertex_start
              ELSE At(dd.ngb_part_idx, ngb_del_vert_idx - dd.ngb_offset)
      actual_sid == ActualSid(sid0)
      sid == BucketSid(sid0)
      slot == vv.pair_index[sid]
      size == IF vv.pair_index[sid] = vv.pair_size[sid]
                THEN 2 * vv.pair_size[sid] ELSE vv.pair_size[sid]
      surface_area == voronoi_compute_midpoint_area_face(ax, ay, bx, by)
      \* the midpoint is written into the slot before the area is tested
      touched == [PairAt(vv, sid, slot) EXCEPT
                    !.midpoint = FaceMidpoint(ax, ay, bx, by)]
      this_pair == [touched EXCEPT
                      !.surface_area = surface_area,
                      !.left_idx = del_vert_idx - dd.vertex_start,
                      !.right_idx = right_part_idx,
                      !.sid = actual_sid]
  IN  IF surface_area < vv.min_surface_area
        THEN [v |-> [vv EXCEPT !.pair_size[sid] = size,
                               !.pairs[sid] = WriteAt(@, slot, touched)],
              ret |-> 0, kind |-> "insert"]
        ELSE [v |-> [vv EXCEPT !.pair_size[sid] = size,
                               !.pairs[sid] = WriteAt(@, slot, this_pair),
                               !.cell_pair_connections =
                                  int2_lifo_queue_push(@, <<slot, sid>>),
                               !.pair_index[sid] = slot + 1],
              ret |-> 1, kind |-> "insert"]

voronoi_add_pair(vv, dd, del_vert_idx, ngb_del_vert_idx, pp, act, ax, ay, bx, by) ==
  IF AlreadyAdded(dd, act, del_vert_idx, ngb_del_vert_idx)
    THEN AddPairSearch(vv, dd, del_vert_idx, ngb_del_vert_idx, pp)
    ELSE AddPairInsert(vv, dd, del_vert_idx, ngb_del_vert_idx, ax, ay, bx, by)

(***************************************************************************)
(* voronoi_build.                                                          *)
(***************************************************************************)
\* A vertex that is a non-ghost, non-dummy vertex of an active particle.
IsActiveVertex(dd, act, k) == IsLocal(dd, k) /\ act[k - dd.vertex_start] = 1

\* Faulty variant: a triangle is skipped when one of its vertices is not an
\* active particle.
SkipTriangleAny(dd, act, t) ==
  \E k \in 1 .. 3 : ~IsActiveVertex(dd, act, t.vertices[k])

\* The circumcenter pass skips a triangle linked to no active particle.
SkipTriangle(dd, act, t) ==
  \A k \in 1 .. 3 : ~IsActiveVertex(dd, act, t.vertices[k])

\* Circumcenter of a Delaunay triangle from the coordinates of its vertices.
TriangleCircumcenter(dd, t) ==
  LET p0 == Vertex(dd, t.vertices[1])
      p1 == Vertex(dd, t.vertices[2])
      p2 == Vertex(dd, t.vertices[3])
  IN  voronoi_compute_circumcenter(p0[1], p0[2], p1[1], p1[2], p2[1], p2[2])

\* Geometry stored in a particle that no build has touched yet: zeroes for a
\* new particle, or the values an earlier build of another grid left behind.
StaleGeometry(stale) ==
  IF stale = 1
    THEN [volume |-> 16, centroid |-> <<0, 0, 0>>, nface |-> 3,
          pair_connections_offset |-> 1, min_face_dist |-> 2]
    ELSE [volume |-> 0, centroid |-> <<0, 0, 0>>, nface |-> 0,
          pair_connections_offset |-> 0, min_face_dist |-> 0]

\* Faulty variant: the test of the activity flag is inverted.
SkipParticleInverted(act, i) == act[i] # 0

\* Faulty variant: a cell is built for every particle.
SkipParticleNever(act, i) == act[i] = 0 /\ FALSE

\* Don't create voronoi cells for inactive particles.
SkipParticle(act, i) == act[i] = 0

\* The frame of voronoi_build on entry.  visited and tried are the history
\* of the walk around the current generator: the triangles it has been in
\* and the neighbours it has called voronoi_add_pair for.
BuildEntry(dd) ==
  [pc |-> "circum", ti |-> 0, i |-> 0,
   vertices |-> [k \in 1 .. (dd.triangle_index - 3) |-> <<Uninit, Uninit>>],
   t0 |-> 0, t1 |-> 0, cur_t_ix_in_next_t |-> 0, first_ngb_del_vert_ix |-> 0,
   cx |-> 0, cy |-> 0, cell_volume |-> 0, cell_centroid |-> <<0, 0>>,
   nface |-> 0, pair_connections_offset |-> 0,
   min_ngb_dist2 |-> DBL_MAX, min_ngb_dist_pos |-> <<0, 0>>,
   visited |-> <<>>, tried |-> <<>>]

NoCall == [n |-> 0, extra |-> 0, left |-> 0, ngb |-> 0, kind |-> "none", ret |-> 0]

\* Faulty variant: the grid is given up when the build aborts.
CircumcenterStepFreesGrid ==
  /\ b.pc = "circum"
  /\ LET t == Triangle(D, b.ti + 3)
         v0 == t.vertices[1]
         v1 == t.vertices[2]
         v2 == t.vertices[3]
         next_pc == IF b.ti + 1 < D.triangle_index - 3 THEN "circum" ELSE "cells"
     IN  CASE SkipTriangle(D, part_is_active, t) ->
                /\ b' = [b EXCEPT !.ti = @ + 1, !.pc = next_pc]
                /\ v' = v
                /\ reads' = reads
          [] ~SkipTriangle(D, part_is_active, t) /\ IsDummy(D, v0) ->
                /\ b' = [b EXCEPT !.pc = "error"]
                /\ v' = [v EXCEPT !.active = 0]
                /\ reads' = reads
          [] ~SkipTriangle(D, part_is_active, t) /\ ~IsDummy(D, v0)
               /\ IsDummy(D, v1) ->
                /\ b' = [b EXCEPT !.pc = "error"]
                /\ v' = [v EXCEPT !.active = 0]
                /\ reads' = reads \cup {v0}
          [] ~SkipTriangle(D, part_is_active, t) /\ ~IsDummy(D, v0)
               /\ ~IsDummy(D, v1) /\ IsDummy(D, v2) ->
                /\ b' = [b EXCEPT !.pc = "error"]
                /\ v' = [v EXCEPT !.active = 0]
                /\ reads' = reads \cup {v0, v1}
          [] OTHER ->
                /\ b' = [b EXCEPT !.ti = @ + 1, !.pc = next_pc,
                                  !.vertices[b.ti + 1] = TriangleCircumcenter(D, t)]
                /\ v' = v
                /\ reads' = reads \cup {v0, v1, v2}
  /\ UNCHANGED <<dcfg, part_is_active, parts, call, hp, fx, rst, restVars>>

\* One iteration of the loop over the Delaunay triangles.
CircumcenterStep ==
  /\ b.pc = "circum"
  /\ LET t == Triangle(D, b.ti + 3)
         v0 == t.vertices[1]
         v1 == t.vertices[2]
         v2 == t.vertices[3]
         next_pc == IF b.ti + 1 < D.triangle_index - 3 THEN "circum" ELSE "cells"
     IN  CASE SkipTriangle(D, part_is_active, t) ->
                /\ b' = [b EXCEPT !.ti = @ + 1, !.pc = next_pc]
                /\ reads' = reads
          [] ~SkipTriangle(D, part_is_active, t) /\ IsDummy(D, v0) ->
                /\ b' = [b EXCEPT !.pc = "error"]
                /\ reads' = reads
          [] ~SkipTriangle(D, part_is_active, t) /\ ~IsDummy(D, v0)
               /\ IsDummy(D, v1) ->
                /\ b' = [b EXCEPT !.pc = "error"]
                /\ reads' = reads \cup {v0}
          [] ~SkipTriangle(D, part_is_active, t) /\ ~IsDummy(D, v0)
               /\ ~IsDummy(D, v1) /\ IsDummy(D, v2) ->
                /\ b' = [b EXCEPT !.pc = "error"]
                /\ reads' = reads \cup {v0, v1}
          [] OTHER ->
                /\ b' = [b EXCEPT !.ti = @ + 1, !.pc = next_pc,
                                  !.vertices[b.ti + 1] = TriangleCircumcenter(D, t)]
                /\ reads' = reads \cup {v0, v1, v2}
  /\ UNCHANGED <<dcfg, part_is_active, parts, v, call, hp, fx, rst, restVars>>

\* The head of the loop over the generators: leave the loop, skip an inactive
\* particle, or set up the ring walk of an active one.
GeneratorStep ==
  /\ b.pc = "cells"
  /\ LET i == b.i
         del_vert_ix == i + D.vertex_start
         t0 == At(D.vertex_triangles, del_vert_ix)
         del_vert_ix_in_t0 == At(D.vertex_triangle_index, del_vert_ix)
         next_t_ix_in_cur_t == (del_vert_ix_in_t0 + 1) % 3
     IN  CASE i >= Count(D) ->
                /\ b' = [b EXCEPT !.pc = "done"]
                /\ reads' = reads
          [] i < Count(D) /\ SkipParticle(part_is_active, i) ->
                /\ b' = [b EXCEPT !.i = i + 1]
                /\ reads' = reads
          [] i < Count(D) /\ ~SkipParticle(part_is_active, i)
               /\ del_vert_ix >= D.vertex_end ->
                /\ b' = [b EXCEPT !.pc = "error"]
                /\ reads' = reads
          [] OTHER ->
                /\ b' = [b EXCEPT
                     !.pc = "ring",
                     !.cell_volume = 0,
                     !.cell_centroid = <<0, 0>>,
                     !.nface = 0,
                     !.pair_connections_offset = v.cell_pair_connections.index,
                     !.min_ngb_dist2 = DBL_MAX,
                     !.min_ngb_dist_pos = <<0, 0>>,
                     !.t0 = t0,
                     !.cx = b.vertices[t0 - 3 + 1][1],
                     !.cy = b.vertices[t0 - 3 + 1][2],
                     !.first_ngb_del_vert_ix =
                        At(Triangle(D, t0).vertices, next_t_ix_in_cur_t),
                     !.t1 = At(Triangle(D, t0).neighbours, next_t_ix_in_cur_t),
                     !.cur_t_ix_in_next_t =
                        At(Triangle(D, t0).index_in_neighbour, next_t_ix_in_cur_t),
                     !.visited = <<t0>>,
                     !.tried = <<>>]
                /\ reads' = reads \cup {del_vert_ix}
  /\ UNCHANGED <<dcfg, part_is_active, parts, v, call, hp, fx, rst, restVars>>

\* Faulty variant: a face is counted whether or not it was registered.
AfterFaceCountsAll(fr, r, ngb_del_vert_ix, bx, by, cx, cy) ==
  LET p == parts[fr.i]
      ax == Vertex(D, fr.i + D.vertex_start)[1]
      ay == Vertex(D, fr.i + D.vertex_start)[2]
      VV == voronoi_compute_centroid_volume_triangle(ax, ay, bx, by, cx, cy)
      centroid == TriangleCentroid(ax, ay, bx, by, cx, cy)
      ngb_pos == Vertex(D, ngb_del_vert_ix)
      dx == <<ngb_pos[1] - p.x[1], ngb_pos[2] - p.x[2]>>
      dist2 == dx[1] * dx[1] + dx[2] * dx[2]
      closer == r.ret = 1 /\ dist2 < fr.min_ngb_dist2
  IN  [fr EXCEPT
         !.cx = cx,
         !.cy = cy,
         !.cell_volume = @ + VV,
         !.cell_centroid = <<@[1] + VV * centroid[1], @[2] + VV * centroid[2]>>,
         !.nface = @ + 1,
         !.min_ngb_dist2 = IF closer THEN dist2 ELSE @,
         !.min_ngb_dist_pos = IF closer THEN <<ngb_pos[1], ngb_pos[2]>> ELSE @]

\* The accumulators of the cell after the fan triangle (a, b, c) and the
\* registration of the face (b, c) towards neighbour ngb.
AfterFace(fr, r, ngb_del_vert_ix, bx, by, cx, cy) ==
  LET p == parts[fr.i]
      ax == Vertex(D, fr.i + D.vertex_start)[1]
      ay == Vertex(D, fr.i + D.vertex_start)[2]
      VV == voronoi_compute_centroid_volume_triangle(ax, ay, bx, by, cx, cy)
      centroid == TriangleCentroid(ax, ay, bx, by, cx, cy)
      ngb_pos == Vertex(D, ngb_del_vert_ix)
      dx == <<ngb_pos[1] - p.x[1], ngb_pos[2] - p.x[2]>>
      dist2 == dx[1] * dx[1] + dx[2] * dx[2]
      closer == r.ret = 1 /\ dist2 < fr.min_ngb_dist2
  IN  [fr EXCEPT
         !.cx = cx,
         !.cy = cy,
         !.cell_volume = @ + VV,
         !.cell_centroid = <<@[1] + VV * centroid[1], @[2] + VV * centroid[2]>>,
         !.nface = IF r.ret = 1 THEN @ + 1 ELSE @,
         !.min_ngb_dist2 = IF closer THEN dist2 ELSE @,
         !.min_ngb_dist_pos = IF closer THEN <<ngb_pos[1], ngb_pos[2]>> ELSE @]

Called(r, left, ngb, extra) ==
  [n |-> call.n + 1, extra |-> call.extra + extra, left |-> left, ngb |-> ngb,
   kind |-> r.kind, ret |-> r.ret]

\* Faulty variant: an iteration of the loop moves on by two triangles.
RingStepTwoTriangles ==
  /\ b.pc = "ring"
  /\ b.t1 # b.t0
  /\ LET del_vert_ix == b.i + D.vertex_start
         bx == b.cx
         by == b.cy
         cx == b.vertices[b.t1 - 3 + 1][1]
         cy == b.vertices[b.t1 - 3 + 1][2]
         next_t_ix_in_cur_t == (b.cur_t_ix_in_next_t + 2) % 3
         ngb_del_vert_ix == At(Triangle(D, b.t1).vertices, next_t_ix_in_cur_t)
         t2 == At(Triangle(D, b.t1).neighbours, next_t_ix_in_cur_t)
         next_t_ix_in_t2 ==
            (At(Triangle(D, b.t1).index_in_neighbour, next_t_ix_in_cur_t) + 2) % 3
         r == voronoi_add_pair(v, D, del_vert_ix, ngb_del_vert_ix, parts,
                               part_is_active, bx, by, cx, cy)
     IN  /\ v' = r.v
         /\ call' = Called(r, del_vert_ix, ngb_del_vert_ix, 0)
         /\ reads' = IF r.ret = 1 THEN reads \cup {ngb_del_vert_ix} ELSE reads
         /\ b' = [AfterFace(b, r, ngb_del_vert_ix, bx, by, cx, cy) EXCEPT
                    !.cur_t_ix_in_next_t =
                       At(Triangle(D, t2).index_in_neighbour, next_t_ix_in_t2),
                    !.t1 = At(Triangle(D, t2).neighbours, next_t_ix_in_t2),
                    !.visited = Append(@, b.t1),
                    !.tried = Append(@, ngb_del_vert_ix)]
  /\ UNCHANGED <<dcfg, part_is_active, parts, hp, fx, rst, restVars>>

\* One iteration of the loop around the generator.
RingStep ==
  /\ b.pc = "ring"
  /\ b.t1 # b.t0
  /\ LET del_vert_ix == b.i + D.vertex_start
         bx == b.cx
         by == b.cy
         cx == b.vertices[b.t1 - 3 + 1][1]
         cy == b.vertices[b.t1 - 3 + 1][2]
         next_t_ix_in_cur_t == (b.cur_t_ix_in_next_t + 2) % 3
         ngb_del_vert_ix == At(Triangle(D, b.t1).vertices, next_t_ix_in_cur_t)
         r == voronoi_add_pair(v, D, del_vert_ix, ngb_del_vert_ix, parts,
                               part_is_active, bx, by, cx, cy)
     IN  /\ v' = r.v
         /\ call' = Called(r, del_vert_ix, ngb_del_vert_ix, 0)
         /\ reads' = IF r.ret = 1 THEN reads \cup {ngb_del_vert_ix} ELSE reads
         /\ b' = [AfterFace(b, r, ngb_del_vert_ix, bx, by, cx, cy) EXCEPT
                    !.cur_t_ix_in_next_t =
                       At(Triangle(D, b.t1).index_in_neighbour, next_t_ix_in_cur_t),
                    !.t1 = At(Triangle(D, b.t1).neighbours, next_t_ix_in_cur_t),
                    !.visited = Append(@, b.t1),
                    !.tried = Append(@, ngb_del_vert_ix)]
  /\ UNCHANGED <<dcfg, part_is_active, parts, hp, fx, rst, restVars>>

\* The geometry stored in the particle once the ring is closed.
CellGeometry(fr, p) ==
  LET cell_centroid == <<FDiv(fr.cell_centroid[1], fr.cell_volume),
                         FDiv(fr.cell_centroid[2], fr.cell_volume)>>
      face == <<(fr.min_ngb_dist_pos[1] + p.x[1]) \div 2,
                (fr.min_ngb_dist_pos[2] + p.x[2]) \div 2>>
      dx_gen == <<face[1] - p.x[1], face[2] - p.x[2]>>
      dx_cen == <<face[1] - cell_centroid[1], face[2] - cell_centroid[2]>>
      dist == FDiv(2 * (dx_cen[1] * dx_gen[1] + dx_cen[2] * dx_gen[2]),
                   ISqrt(fr.min_ngb_dist2))
  IN  IF fr.cell_volume = 0
        THEN [volume |-> 0, centroid |-> <<NaN, NaN, 0>>, nface |-> fr.nface,
              pair_connections_offset |-> fr.pair_connections_offset,
              min_face_dist |-> NaN]
        ELSE [volume |-> fr.cell_volume,
              centroid |-> <<cell_centroid[1] - p.x[1], cell_centroid[2] - p.x[2], 0>>,
              nface |-> fr.nface,
              pair_connections_offset |-> fr.pair_connections_offset,
              min_face_dist |-> dist]

\* The ring is closed: the last edge, then the cell is stored in the particle.
CloseCell ==
  /\ b.pc = "ring"
  /\ b.t1 = b.t0
  /\ LET del_vert_ix == b.i + D.vertex_start
         bx == b.cx
         by == b.cy
         cx == b.vertices[b.t0 - 3 + 1][1]
         cy == b.vertices[b.t0 - 3 + 1][2]
         r == voronoi_add_pair(v, D, del_vert_ix, b.first_ngb_del_vert_ix, parts,
                               part_is_active, bx, by, cx, cy)
         fr == AfterFace(b, r, b.first_ngb_del_vert_ix, bx, by, cx, cy)
     IN  /\ v' = r.v
         /\ call' = Called(r, del_vert_ix, b.first_ngb_del_vert_ix, 0)
         /\ reads' = IF r.ret = 1 THEN reads \cup {b.first_ngb_del_vert_ix} ELSE reads
         /\ parts' = [parts EXCEPT ![b.i].geometry = CellGeometry(fr, parts[b.i])]
         /\ b' = [fr EXCEPT !.pc = "cells", !.i = @ + 1,
                             !.tried = Append(@, b.first_ngb_del_vert_ix)]
  /\ UNCHANGED <<dcfg, part_is_active, hp, fx, rst, restVars>>

(***************************************************************************)
(* The faces of the tessellation, read off the Delaunay triangles (not off *)
(* the ring walks): two vertices share a face when a triangle holds both.  *)
(***************************************************************************)
RealTriangles(dd) == 3 .. (dd.triangle_index - 1)

TriangleHas(dd, t, k) == \E m \in 1 .. 3 : Triangle(dd, t).vertices[m] = k

EdgeTriangles(dd, a, c) ==
  { t \in RealTriangles(dd) : TriangleHas(dd, t, a) /\ TriangleHas(dd, t, c) }

Neighbours(dd, a, c) == a # c /\ EdgeTriangles(dd, a, c) # {}

\* The two end points of the face between a and c.
FaceEnds(dd, a, c) ==
  LET ts == EdgeTriangles(dd, a, c)
      ta == SetMin(ts)
      tb == SetMin(ts \ {ta})
  IN  <<TriangleCircumcenter(dd, Triangle(dd, ta)),
        TriangleCircumcenter(dd, Triangle(dd, tb))>>

\* A further voronoi_add_pair call by the caller, after the build, for the face
\* between an active generator and one of its local neighbours.
ExtraAddPair(left, ngb) ==
  /\ b.pc = "done"
  /\ call.extra < MaxExtraCalls
  /\ IsActiveVertex(D, part_is_active, left)
  /\ IsLocal(D, ngb)
  /\ Neighbours(D, left, ngb)
  /\ LET e == FaceEnds(D, left, ngb)
         r == voronoi_add_pair(v, D, left, ngb, parts, part_is_active,
                               e[1][1], e[1][2], e[2][1], e[2][2])
     IN  /\ v' = r.v
         /\ call' = Called(r, left, ngb, 1)
  /\ UNCHANGED <<dcfg, part_is_active, parts, b, reads, hp, fx, rst, restVars>>

(***************************************************************************)
(* The hydro scheme: runner_iact_flux_exchange.                            *)
(***************************************************************************)
HydroIds == 0 .. 2

\* Position, velocities and primitive variables of the three particles.
HydroInit ==
  <<[x |-> <<0, 0, 0>>, v |-> <<2, 0, 0>>, fluid_v |-> <<2, 0, 0>>, rho |-> 1, P |-> 4],
    [x |-> <<2, 0, 0>>, v |-> <<0, 0, 0>>, fluid_v |-> <<-1, 0, 0>>, rho |-> 0, P |-> 0],
    [x |-> <<2, 3, 0>>, v |-> <<0, 1, 0>>, fluid_v |-> <<0, 1, 0>>, rho |-> 4, P |-> 36]>>

\* Time steps a particle can have; a particle that is not active has dt < 0.
DtValues == {-1, 0, 1, 2}

\* Fluxes per unit area and time the Riemann solver can return:
\* <<mass, momentum x, y, z, energy>>.
RiemannFluxes == { <<1, 2, 0, 0, 3>>, <<-2, 0, 1, 0, -1>> }

SurfaceAreas == {1, 2}

HydroPart(k, dt) ==
  [x |-> At(HydroInit, k).x, v |-> At(HydroInit, k).v,
   fluid_v |-> At(HydroInit, k).fluid_v,
   rho |-> At(HydroInit, k).rho, P |-> At(HydroInit, k).P,
   flux |-> [dt |-> dt, mass |-> 0, momentum |-> <<0, 0, 0>>, energy |-> 0],
   gradients |-> [f \in 1 .. 5 |-> <<0, 0, 0>>],
   limiter |-> [lo |-> [f \in 1 .. 5 |-> DBL_MAX], hi |-> [f \in 1 .. 5 |-> -DBL_MAX]],
   timestepvars |-> [vmax |-> 0]]

NoExchange ==
  [n |-> 0, i |-> 0, j |-> 0, min_dt |-> 0, vmax |-> 0,
   totflux |-> <<0, 0, 0, 0, 0>>, faces |-> {}]

\* W = (rho, fluid velocity, pressure).
hydro_part_get_primitive_variables(p) ==
  <<p.rho, p.fluid_v[1], p.fluid_v[2], p.fluid_v[3], p.P>>

gas_soundspeed_from_pressure(rho, P) == ISqrt(P \div rho)

Min3(x, y, z) == Min2(x, Min2(y, z))

Dot3(a, c) == a[1] * c[1] + a[2] * c[2] + a[3] * c[3]

\* The maximal signal velocity of the face between pi and pj.
SignalVelocity(pi, pj, shift) ==
  LET dx == [k \in 1 .. 3 |-> pi.x[k] - pj.x[k] - shift[k]]
      r == ISqrt(Dot3(dx, dx))
      Wi == hydro_part_get_primitive_variables(pi)
      Wj == hydro_part_get_primitive_variables(pj)
      cs == (IF Wi[1] > 0 THEN gas_soundspeed_from_pressure(pi.rho, pi.P) ELSE 0)
            + (IF Wj[1] > 0 THEN gas_soundspeed_from_pressure(pj.rho, pj.P) ELSE 0)
      dvdr == Dot3([k \in 1 .. 3 |-> pi.v[k] - pj.v[k]], dx)
      dvdotdx == Dot3([k \in 1 .. 3 |-> Wi[k + 1] - Wj[k + 1]], dx)
  IN  cs - (Min3(dvdr, dvdotdx, 0) \div r)

\* Faulty variant: the minimum is taken also when pj is not active.
FluxTimeStepAlwaysMin(pi, pj) == Min2(pi.flux.dt, pj.flux.dt)

\* The time step of the flux exchange.
FluxTimeStep(pi, pj) ==
  IF pj.flux.dt > 0 THEN Min2(pi.flux.dt, pj.flux.dt) ELSE pi.flux.dt

\* The flux through the face, integrated over the face and the time step.
hydro_compute_flux(F, surface_area, min_dt) ==
  [k \in 1 .. 5 |-> F[k] * surface_area * min_dt]

hydro_part_update_fluxes_left(p, fluxes) ==
  [p EXCEPT !.flux.mass = @ - fluxes[1],
            !.flux.momentum = <<@[1] - fluxes[2], @[2] - fluxes[3], @[3] - fluxes[4]>>,
            !.flux.energy = @ - fluxes[5]]

hydro_part_update_fluxes_right(p, fluxes) ==
  [p EXCEPT !.flux.mass = @ + fluxes[1],
            !.flux.momentum = <<@[1] + fluxes[2], @[2] + fluxes[3], @[3] + fluxes[4]>>,
            !.flux.energy = @ + fluxes[5]]

\* Faulty variant: the fluxes of the right particle are only updated when it is active.
FluxExchangedActiveOnly(pi, pj, totflux, vmax) ==
  <<hydro_part_update_fluxes_left(
       [pi EXCEPT !.timestepvars.vmax = Max2(@, vmax)], totflux),
    IF pj.flux.dt > 0
      THEN hydro_part_update_fluxes_right(
             [pj EXCEPT !.timestepvars.vmax = Max2(@, vmax)], totflux)
      ELSE [pj EXCEPT !.timestepvars.vmax = Max2(@, vmax)]>>

\* Faulty variant: the signal velocity of the face replaces the stored one.
FluxExchangedLastWins(pi, pj, totflux, vmax) ==
  <<hydro_part_update_fluxes_left(
       [pi EXCEPT !.timestepvars.vmax = vmax], totflux),
    hydro_part_update_fluxes_right(
       [pj EXCEPT !.timestepvars.vmax = vmax], totflux)>>

\* Faulty variant: the signal velocity of an inactive right particle is kept.
FluxExchangedVmaxActiveOnly(pi, pj, totflux, vmax) ==
  <<hydro_part_update_fluxes_left(
       [pi EXCEPT !.timestepvars.vmax = Max2(@, vmax)], totflux),
    hydro_part_update_fluxes_right(
       [pj EXCEPT !.timestepvars.vmax =
                     IF pj.flux.dt > 0 THEN Max2(@, vmax) ELSE @], totflux)>>

\* The two particles after the flux exchange over their face.
FluxExchanged(pi, pj, totflux, vmax) ==
  <<hydro_part_update_fluxes_left(
       [pi EXCEPT !.timestepvars.vmax = Max2(@, vmax)], totflux),
    hydro_part_update_fluxes_right(
       [pj EXCEPT !.timestepvars.vmax = Max2(@, vmax)], totflux)>>

\* runner_iact_flux_exchange(pi, pj, centroid, surface_area, shift); F is the
\* flux the Riemann solver returns for the face.  pi is always active.
runner_iact_flux_exchange(i, j, surface_area, F) ==
  /\ fx.n < MaxExchanges
  /\ i # j
  /\ hp[i].flux.dt >= 0
  /\ LET pi == hp[i]
         pj == hp[j]
         vmax == SignalVelocity(pi, pj, <<0, 0, 0>>)
         min_dt == FluxTimeStep(pi, pj)
         totflux == hydro_compute_flux(F, surface_area, min_dt)
         after == FluxExchanged(pi, pj, totflux, vmax)
     IN  /\ hp' = [hp EXCEPT ![i] = after[1], ![j] = after[2]]
         /\ fx' = [n |-> fx.n + 1, i |-> i, j |-> j, min_dt |-> min_dt,
                   vmax |-> vmax, totflux |-> totflux,
                   faces |-> fx.faces \cup {<<i, j>>}]
  /\ UNCHANGED <<vorVars, restVars>>

(***************************************************************************)
(* Specifications.                                                         *)
(***************************************************************************)
\* Values of dmin (a characteristic cell size) the grid is allocated with.
DMins == {0, 1, 5}

InitVoronoi ==
  /\ dcfg \in 1 .. 5
  /\ part_is_active \in [0 .. (Count(D) - 1) -> {0, 1}]
  /\ \E stale \in {0, 1} :
       parts = [i \in 0 .. (Count(D) - 1) |->
                  [x |-> <<Vertex(D, i + D.vertex_start)[1],
                           Vertex(D, i + D.vertex_start)[2], 0>>,
                   geometry |-> StaleGeometry(stale)]]
  /\ \E dmin \in DMins : v = voronoi_malloc(Count(D), dmin)
  /\ b = BuildEntry(D)
  /\ call = NoCall
  /\ reads = {}
  /\ rst = NoReset
  /\ wk = NoWorkers
  /\ rt = NoRt
  /\ eos = NoEndOfStep
  /\ lm = NoLightcone
  /\ sd = <<>>
  /\ tc = <<>>

InitHydro ==
  /\ hp \in { [k \in HydroIds |-> HydroPart(k, dts[k])] : dts \in [HydroIds -> DtValues] }
  /\ fx = NoExchange

\* The grid construction, with the hydro scheme at rest.
Init ==
  /\ InitVoronoi
  /\ hp = [k \in HydroIds |-> HydroPart(k, 1)]
  /\ fx = NoExchange

Next ==
  \/ CircumcenterStep
  \/ GeneratorStep
  \/ RingStep
  \/ CloseCell
  \/ \E left, ngb \in 0 .. D.vertex_end : ExtraAddPair(left, ngb)

Spec == Init /\ [][Next]_vars

\* voronoi_build runs on: a step of the build that can be taken is taken.
BuildStep == CircumcenterStep \/ GeneratorStep \/ RingStep \/ CloseCell

\* One build of a fresh grid, run to its end.
InitFair ==
  /\ Init
  /\ v = voronoi_malloc(Count(D), 1)
  /\ \A i \in DOMAIN parts : parts[i].geometry = StaleGeometry(0)

SpecFair == InitFair /\ [][BuildStep]_vars /\ WF_vars(BuildStep)

\* One build with every generator active: the tessellations whose ghosts
\* close the local cell, and the square with a centred generator.
InitVolume ==
  /\ dcfg \in {1, 2, 3, 5, 7}
  /\ part_is_active = [i \in 0 .. (Count(D) - 1) |-> 1]
  /\ \E stale \in {0, 1} :
       parts = [i \in 0 .. (Count(D) - 1) |->
                  [x |-> <<Vertex(D, i + D.vertex_start)[1],
                           Vertex(D, i + D.vertex_start)[2], 0>>,
                   geometry |-> StaleGeometry(stale)]]
  /\ \E dmin \in DMins : v = voronoi_malloc(Count(D), dmin)
  /\ b = BuildEntry(D)
  /\ call = NoCall
  /\ reads = {}
  /\ rst = NoReset
  /\ wk = NoWorkers
  /\ rt = NoRt
  /\ eos = NoEndOfStep
  /\ lm = NoLightcone
  /\ sd = <<>>
  /\ tc = <<>>
  /\ hp = [k \in HydroIds |-> HydroPart(k, 1)]
  /\ fx = NoExchange

SpecVolume == InitVolume /\ [][BuildStep]_vars

\* The build of the collapsed tessellation; only generator 0 is active.
InitCollapsed ==
  /\ dcfg = 6
  /\ part_is_active = [i \in 0 .. (Count(D) - 1) |-> IF i = 0 THEN 1 ELSE 0]
  /\ \E stale \in {0, 1} :
       parts = [i \in 0 .. (Count(D) - 1) |->
                  [x |-> <<Vertex(D, i + D.vertex_start)[1],
                           Vertex(D, i + D.vertex_start)[2], 0>>,
                   geometry |-> StaleGeometry(stale)]]
  /\ \E dmin \in DMins : v = voronoi_malloc(Count(D), dmin)
  /\ b = BuildEntry(D)
  /\ call = NoCall
  /\ reads = {}
  /\ rst = NoReset
  /\ wk = NoWorkers
  /\ rt = NoRt
  /\ eos = NoEndOfStep
  /\ lm = NoLightcone
  /\ sd = <<>>
  /\ tc = <<>>
  /\ hp = [k \in HydroIds |-> HydroPart(k, 1)]
  /\ fx = NoExchange

SpecCollapsed == InitCollapsed /\ [][Next]_vars

\* The flux exchanges over the faces of a finished grid.
InitFlux ==
  /\ dcfg = 1
  /\ part_is_active = [i \in 0 .. (Count(D) - 1) |-> 0]
  /\ parts = [i \in 0 .. (Count(D) - 1) |->
                [x |-> <<Vertex(D, i + D.vertex_start)[1],
                         Vertex(D, i + D.vertex_start)[2], 0>>,
                 geometry |-> StaleGeometry(0)]]
  /\ v = voronoi_malloc(Count(D), 1)
  /\ b = [BuildEntry(D) EXCEPT !.pc = "done", !.vertices = <<>>]
  /\ call = NoCall
  /\ reads = {}
  /\ rst = NoReset
  /\ wk = NoWorkers
  /\ rt = NoRt
  /\ eos = NoEndOfStep
  /\ lm = NoLightcone
  /\ sd = <<>>
  /\ tc = <<>>
  /\ InitHydro

NextFlux ==
  \E i, j \in HydroIds, surface_area \in SurfaceAreas, F \in RiemannFluxes :
    runner_iact_flux_exchange(i, j, surface_area, F)

SpecFlux == InitFlux /\ [][NextFlux]_vars


(***************************************************************************)
(* Rebuilds: after a finished build the caller resets the grid and builds  *)
(* it again for the next step, in which the particles have moved (another  *)
(* tessellation) and other particles are active.  The geometry a particle  *)
(* got in an earlier build stays in the particle until it is rebuilt.      *)
(***************************************************************************)
\* The tessellations and activity flags of the steps with rebuilds.
RebuildCfgs == {3, 5}

RebuildMasks ==
  { [i \in 0 .. 3 |-> At(m, i)] :
      m \in { <<1, 1, 1, 1>>, <<0, 0, 1, 1>>, <<1, 0, 1, 0>>, <<0, 1, 1, 0>> } }

\* Values of dmin a reset is called with.
ResetDMins == {1, 5}

\* voronoi_reset(v, number_of_cells, dmin) on the grid of a finished build.
ResetStep(dmin) ==
  /\ b.pc = "done"
  /\ rst.n < MaxResets
  /\ v.active = 1
  /\ v' = voronoi_reset(v, Count(D), dmin)
  /\ rst' = [n |-> rst.n + 1, dmin |-> dmin]
  /\ b' = [b EXCEPT !.pc = "reset"]
  /\ UNCHANGED <<dcfg, part_is_active, parts, call, reads, hp, fx, restVars>>

\* Entry of the next voronoi_build on the grid that was reset.
BuildAgain(next_cfg, act) ==
  /\ b.pc = "reset"
  /\ Count(Delaunays[next_cfg]) = Count(D)
  /\ dcfg' = next_cfg
  /\ part_is_active' = act
  /\ parts' = [i \in 0 .. (Count(D) - 1) |->
                 [x |-> <<Vertex(Delaunays[next_cfg],
                                 i + Delaunays[next_cfg].vertex_start)[1],
                          Vertex(Delaunays[next_cfg],
                                 i + Delaunays[next_cfg].vertex_start)[2], 0>>,
                  geometry |-> parts[i].geometry]]
  /\ b' = BuildEntry(Delaunays[next_cfg])
  /\ call' = NoCall
  /\ reads' = {}
  /\ UNCHANGED <<v, hp, fx, rst, restVars>>

InitRebuild ==
  /\ dcfg \in RebuildCfgs
  /\ part_is_active \in RebuildMasks
  /\ parts = [i \in 0 .. (Count(D) - 1) |->
                [x |-> <<Vertex(D, i + D.vertex_start)[1],
                         Vertex(D, i + D.vertex_start)[2], 0>>,
                 geometry |-> StaleGeometry(0)]]
  /\ v = voronoi_malloc(Count(D), 0)
  /\ b = BuildEntry(D)
  /\ call = NoCall
  /\ reads = {}
  /\ rst = NoReset
  /\ wk = NoWorkers
  /\ rt = NoRt
  /\ eos = NoEndOfStep
  /\ lm = NoLightcone
  /\ sd = <<>>
  /\ tc = <<>>
  /\ hp = [k \in HydroIds |-> HydroPart(k, 1)]
  /\ fx = NoExchange

NextRebuild ==
  \/ CircumcenterStep
  \/ GeneratorStep
  \/ RingStep
  \/ CloseCell
  \/ \E dmin \in ResetDMins : ResetStep(dmin)
  \/ \E next_cfg \in RebuildCfgs, act \in RebuildMasks : BuildAgain(next_cfg, act)

\* The grid construction over several steps.
SpecRebuild == InitRebuild /\ [][NextRebuild]_vars

(***************************************************************************)
(* voronoi_add_pair called on a new grid for faces between local           *)
(* generators in an order the ring walks do not fix: either end point of a *)
(* face may come first.  No cell is closed, so the spans the lookup reads  *)
(* are those the particles had before.                                     *)
(***************************************************************************)
UnorderedCfgs == {1, 3}

UnorderedAddPair(left, ngb) ==
  /\ b.pc = "done"
  /\ call.n < MaxUnordered
  /\ IsActiveVertex(D, part_is_active, left)
  /\ IsLocal(D, ngb)
  /\ Neighbours(D, left, ngb)
  /\ LET e == FaceEnds(D, left, ngb)
         r == voronoi_add_pair(v, D, left, ngb, parts, part_is_active,
                               e[1][1], e[1][2], e[2][1], e[2][2])
     IN  /\ v' = r.v
         /\ call' = Called(r, left, ngb, 1)
  /\ UNCHANGED <<dcfg, part_is_active, parts, b, reads, hp, fx, rst, restVars>>

InitUnordered ==
  /\ dcfg \in UnorderedCfgs
  /\ part_is_active \in RebuildMasks
  /\ \E stale \in {0, 1} :
       parts = [i \in 0 .. (Count(D) - 1) |->
                  [x |-> <<Vertex(D, i + D.vertex_start)[1],
                           Vertex(D, i + D.vertex_start)[2], 0>>,
                   geometry |-> StaleGeometry(stale)]]
  /\ v = voronoi_malloc(Count(D), 1)
  /\ b = [BuildEntry(D) EXCEPT !.pc = "done", !.vertices = <<>>]
  /\ call = NoCall
  /\ reads = {}
  /\ rst = NoReset
  /\ wk = NoWorkers
  /\ rt = NoRt
  /\ eos = NoEndOfStep
  /\ lm = NoLightcone
  /\ sd = <<>>
  /\ tc = <<>>
  /\ hp = [k \in HydroIds |-> HydroPart(k, 1)]
  /\ fx = NoExchange

NextUnordered ==
  \E left, ngb \in 0 .. 4 : UnorderedAddPair(left, ngb)

\* Calls of voronoi_add_pair in any order.
SpecUnordered == InitUnordered /\ [][NextUnordered]_vars

(***************************************************************************)
(* Flux exchanges made by parallel workers.  runner_iact_flux_exchange     *)
(* updates the two particles with plain loads and stores: each of the four *)
(* updates (vmax of pi, vmax of pj, fluxes of pi, fluxes of pj) reads the  *)
(* old value from the particle and writes the new one back, and the        *)
(* function takes no lock.  The workers are interleaved between any two    *)
(* accesses of the shared particles.                                       *)
(***************************************************************************)
\* The particles before the exchanges of the step.
ParallelParts == [k \in HydroIds |-> HydroPart(k, 1)]

\* The particle a worker updates at stage 1..4 of its exchange.
StageTarget(job) == IF job.stage \in {1, 3} THEN job.i ELSE job.j

FluxVector(p) ==
  <<p.flux.mass, p.flux.momentum[1], p.flux.momentum[2], p.flux.momentum[3],
    p.flux.energy>>

WithFluxVector(p, a) ==
  [p EXCEPT !.flux.mass = a[1],
            !.flux.momentum = <<a[2], a[3], a[4]>>,
            !.flux.energy = a[5]]

\* A worker enters runner_iact_flux_exchange(pi, pj, ...): everything up to
\* the first update of a particle.
StartExchange(w, i, j, surface_area, F) ==
  /\ wk[w].pc = "idle"
  /\ i # j
  /\ hp[i].flux.dt >= 0
  /\ LET vmax == SignalVelocity(hp[i], hp[j], <<0, 0, 0>>)
         min_dt == FluxTimeStep(hp[i], hp[j])
         totflux == hydro_compute_flux(F, surface_area, min_dt)
     IN  wk' = [wk EXCEPT ![w] =
                  [pc |-> "load", stage |-> 1, i |-> i, j |-> j, F |-> F,
                   vmax |-> vmax, totflux |-> totflux,
                   loaded |-> <<0, 0, 0, 0, 0>>]]
  /\ UNCHANGED <<vorVars, hp, fx, rt, eos, lm, sd, tc>>

\* The worker reads the value it is about to update.
WorkerLoad(w) ==
  /\ wk[w].pc = "load"
  /\ LET p == hp[StageTarget(wk[w])]
     IN  wk' = [wk EXCEPT ![w].pc = "store",
                          ![w].loaded =
                             IF wk[w].stage <= 2
                               THEN <<p.timestepvars.vmax, 0, 0, 0, 0>>
                               ELSE FluxVector(p)]
  /\ UNCHANGED <<vorVars, hp, fx, rt, eos, lm, sd, tc>>

\* The value the worker writes back, computed from the value it read.
Updated(p, job) ==
  CASE job.stage <= 2 ->
         [p EXCEPT !.timestepvars.vmax = Max2(job.loaded[1], job.vmax)]
    [] job.stage = 3 ->
         hydro_part_update_fluxes_left(WithFluxVector(p, job.loaded), job.totflux)
    [] OTHER ->
         hydro_part_update_fluxes_right(WithFluxVector(p, job.loaded), job.totflux)

\* The worker writes the new value.
WorkerStore(w) ==
  /\ wk[w].pc = "store"
  /\ hp' = [hp EXCEPT ![StageTarget(wk[w])] = Updated(@, wk[w])]
  /\ wk' = [wk EXCEPT ![w].pc = IF wk[w].stage = 4 THEN "done" ELSE "load",
                       ![w].stage = IF wk[w].stage = 4 THEN 4 ELSE @ + 1]
  /\ UNCHANGED <<vorVars, fx, rt, eos, lm, sd, tc>>

InitParallel ==
  /\ dcfg = 1
  /\ part_is_active = [i \in 0 .. (Count(D) - 1) |-> 0]
  /\ parts = [i \in 0 .. (Count(D) - 1) |->
                [x |-> <<Vertex(D, i + D.vertex_start)[1],
                         Vertex(D, i + D.vertex_start)[2], 0>>,
                 geometry |-> StaleGeometry(0)]]
  /\ v = voronoi_malloc(Count(D), 1)
  /\ b = [BuildEntry(D) EXCEPT !.pc = "done", !.vertices = <<>>]
  /\ call = NoCall
  /\ reads = {}
  /\ rst = NoReset
  /\ hp = ParallelParts
  /\ fx = NoExchange
  /\ wk = NoWorkers
  /\ rt = NoRt
  /\ eos = NoEndOfStep
  /\ lm = NoLightcone
  /\ sd = <<>>
  /\ tc = <<>>

NextParallel ==
  \/ \E w \in Workers, i, j \in HydroIds, surface_area \in SurfaceAreas,
        F \in RiemannFluxes : StartExchange(w, i, j, surface_area, F)
  \/ \E w \in Workers : WorkerLoad(w)
  \/ \E w \in Workers : WorkerStore(w)

\* Two flux exchanges by two workers at the same time.
SpecParallel == InitParallel /\ [][NextParallel]_vars

(***************************************************************************)
(* The RT debugging sequence check of one particle.  The stages of the RT  *)
(* pipeline are 1 finalise injection, 2 gradients, 3 transport and         *)
(* 4 thermochemistry; each calls rt_debug_sequence_check with its location *)
(* and then counts itself in its done-counter.  The tasks are offered in   *)
(* any order, so that the check has something to detect.                   *)
(***************************************************************************)
RtStages == 1 .. 4

\* The done-counter of a stage.
DoneCounter(p, stage) ==
  CASE stage = 1 -> p.debug_injection_done
    [] stage = 2 -> p.debug_gradients_done
    [] stage = 3 -> p.debug_transport_done
    [] OTHER -> p.debug_thermochem_done

\* Faulty variant: two kicks are asked for in the zeroth subcycle as well.
WrongKickCountAlwaysTwo(p) ==
  IF p.debug_nsubcycles >= 0 THEN p.debug_kicked # 2 ELSE TRUE

\* The kick count test of rt_debug_sequence_check (loc > 0).
WrongKickCount(p) ==
  IF p.debug_nsubcycles = 0
    THEN IF p.debug_rt_zeroth_cycle_on_main_step # 0
           THEN p.debug_kicked # 1
           ELSE p.debug_kicked # 2
    ELSE IF p.debug_nsubcycles > 0
           THEN p.debug_kicked # 2
           ELSE TRUE

\* Faulty variant: a stage counts as done when its counter is not zero.
rt_debug_sequence_check_nonzero(p, loc) ==
  IF p.debug_drifted # 1 /\ loc # 1 THEN "drift"
  ELSE IF loc > 0 /\ WrongKickCount(p) THEN "kick"
  ELSE IF loc > 1 /\ p.debug_injection_done = 0 THEN "injection"
  ELSE IF loc > 2 /\ p.debug_gradients_done = 0 THEN "gradients"
  ELSE IF loc > 3 /\ p.debug_transport_done = 0 THEN "transport"
  ELSE IF loc > 4 /\ p.debug_thermochem_done = 0 THEN "thermochem"
  ELSE "none"

\* rt_debug_sequence_check(p, loc, function_name): the error it raises, or
\* "none" when it returns.
rt_debug_sequence_check(p, loc) ==
  IF p.debug_drifted # 1 /\ loc # 1 THEN "drift"
  ELSE IF loc > 0 /\ WrongKickCount(p) THEN "kick"
  ELSE IF loc > 1 /\ p.debug_injection_done # 1 THEN "injection"
  ELSE IF loc > 2 /\ p.debug_gradients_done # 1 THEN "gradients"
  ELSE IF loc > 3 /\ p.debug_transport_done # 1 THEN "transport"
  ELSE IF loc > 4 /\ p.debug_thermochem_done # 1 THEN "thermochem"
  ELSE "none"

\* The stage counts itself.
StageDone(p, stage) ==
  CASE stage = 1 -> [p EXCEPT !.debug_injection_done = @ + 1]
    [] stage = 2 -> [p EXCEPT !.debug_gradients_done = @ + 1]
    [] stage = 3 -> [p EXCEPT !.debug_transport_done = @ + 1]
    [] OTHER -> [p EXCEPT !.debug_thermochem_done = @ + 1]

rt_debugging_reset_each_subcycle(p) ==
  [p EXCEPT !.debug_calls_iact_gradient_interaction = 0,
            !.debug_calls_iact_transport_interaction = 0,
            !.debug_injection_done = 0,
            !.debug_gradients_done = 0,
            !.debug_transport_done = 0,
            !.debug_thermochem_done = 0]

\* error() does not return: nothing runs after it.
Checked(loc, e) ==
  [rt EXCEPT !.pc = IF e = "none" THEN "run" ELSE "error", !.loc = loc, !.err = e]

\* A stage of the pipeline runs on the particle.
RtStage(stage) ==
  /\ rt.pc = "run"
  /\ DoneCounter(rt.p, stage) < MaxDone
  /\ LET e == rt_debug_sequence_check(rt.p, stage)
     IN  rt' = IF e = "none"
                 THEN [Checked(stage, e) EXCEPT !.p = StageDone(@, stage),
                                                !.trace = Append(@, stage)]
                 ELSE Checked(stage, e)
  /\ UNCHANGED <<vorVars, hp, fx, wk, eos, lm, sd, tc>>

\* The check alone: during the kicks (0) and after thermochemistry (5).
RtCheck(loc) ==
  /\ rt.pc = "run"
  /\ rt' = Checked(loc, rt_debug_sequence_check(rt.p, loc))
  /\ UNCHANGED <<vorVars, hp, fx, wk, eos, lm, sd, tc>>

\* The particle is reset for the next subcycle.
RtReset ==
  /\ rt.pc = "run"
  /\ rt.trace # <<>>
  /\ rt' = [rt EXCEPT !.p = rt_debugging_reset_each_subcycle(@),
                      !.loc = -1, !.err = "none", !.trace = <<>>]
  /\ UNCHANGED <<vorVars, hp, fx, wk, eos, lm, sd, tc>>

\* The grid and the hydro scheme at rest.
GridAtRest ==
  /\ dcfg = 1
  /\ part_is_active = [i \in 0 .. (Count(D) - 1) |-> 0]
  /\ parts = [i \in 0 .. (Count(D) - 1) |->
                [x |-> <<Vertex(D, i + D.vertex_start)[1],
                         Vertex(D, i + D.vertex_start)[2], 0>>,
                 geometry |-> StaleGeometry(0)]]
  /\ v = voronoi_malloc(Count(D), 1)
  /\ b = [BuildEntry(D) EXCEPT !.pc = "done", !.vertices = <<>>]
  /\ call = NoCall
  /\ reads = {}
  /\ rst = NoReset
  /\ hp = ParallelParts
  /\ fx = NoExchange

InitRt ==
  /\ GridAtRest
  /\ wk = NoWorkers
  /\ \E drifted \in {0, 1}, kicked \in {1, 2}, nsubcycles \in {-1, 0, 1},
        zeroth \in {0, 1}, calls \in {2, 3} :
       rt = [NoRt EXCEPT !.p = RtPart(drifted, kicked, nsubcycles, zeroth, calls)]
  /\ eos = NoEndOfStep
  /\ lm = NoLightcone
  /\ sd = <<>>
  /\ tc = <<>>

NextRt ==
  \/ \E stage \in RtStages : RtStage(stage)
  \/ \E loc \in {0, 5} : RtCheck(loc)
  \/ RtReset

SpecRt == InitRt /\ [][NextRt]_vars

(***************************************************************************)
(* rt_debugging_checks_end_of_step: the radiation emitted by the stars is  *)
(* compared with the radiation absorbed by the gas.  threadpool_map hands  *)
(* the particles to the mapper in chunks, in any order; a chunk is one     *)
(* particle here, and the mapper adds its sums with atomic_add.            *)
(***************************************************************************)
\* Debugging counters a gas particle can carry at the end of a step.
PartDebugs ==
  { [debug_iact_stars_inject |-> 0, debug_radiation_absorbed_tot |-> 0,
     debug_drifted |-> 1],
    [debug_iact_stars_inject |-> 1, debug_radiation_absorbed_tot |-> 1,
     debug_drifted |-> 1],
    [debug_iact_stars_inject |-> 0, debug_radiation_absorbed_tot |-> 2,
     debug_drifted |-> 0] }

\* Debugging counters a star particle can carry at the end of a step.
SpartDebugs ==
  { [debug_iact_hydro_inject |-> 0, debug_iact_hydro_inject_prep |-> 0,
     debug_radiation_emitted_tot |-> 0],
    [debug_iact_hydro_inject |-> 1, debug_iact_hydro_inject_prep |-> 1,
     debug_radiation_emitted_tot |-> 1],
    [debug_iact_hydro_inject |-> 0, debug_iact_hydro_inject_prep |-> 0,
     debug_radiation_emitted_tot |-> 2] }

SeqsUpTo(S, n) == UNION { [1 .. m -> S] : m \in 0 .. n }

\* What the sums of the engine hold from the step before.
StaleSums ==
  [debug_radiation_emitted_this_step |-> 7,
   debug_radiation_absorbed_this_step |-> 0,
   debug_radiation_emitted_tot |-> 3,
   debug_radiation_absorbed_tot |-> 3]

\* Where the check goes after the gas loop or instead of it.
AfterParts(e) == IF Len(e.sparts) > 0 THEN "stars" ELSE "compare"

\* rt_debugging_checks_end_of_step up to the first particle loop.
EndOfStepEntry ==
  /\ eos.pc = "start"
  /\ eos' =
       IF eos.policy_rt = 0 \/ eos.with_mpi = 1
         THEN [eos EXCEPT !.pc = "returned"]
         ELSE [eos EXCEPT
                 !.rt_props = [debug_radiation_emitted_this_step |-> 0,
                               debug_radiation_absorbed_this_step |-> 0,
                               debug_radiation_emitted_tot |-> 0,
                               debug_radiation_absorbed_tot |-> 0],
                 !.pc = IF Len(eos.parts) > 0 THEN "hydro" ELSE AfterParts(eos)]
  /\ UNCHANGED <<vorVars, hp, fx, wk, rt, lm, sd, tc>>

\* rt_debugging_end_of_step_hydro_mapper on the chunk {k}.
rt_debugging_end_of_step_hydro_mapper(k) ==
  /\ eos.pc = "hydro"
  /\ k \in (1 .. Len(eos.parts)) \ eos.mapped
  /\ LET p == eos.parts[k]
         all == eos.mapped \cup {k} = 1 .. Len(eos.parts)
     IN  eos' = [eos EXCEPT
                   !.rt_props.debug_radiation_absorbed_this_step =
                      @ + p.debug_iact_stars_inject,
                   !.rt_props.debug_radiation_absorbed_tot =
                      @ + p.debug_radiation_absorbed_tot,
                   !.parts[k].debug_iact_stars_inject = 0,
                   !.parts[k].debug_drifted = 0,
                   !.mapped = IF all THEN {} ELSE @ \cup {k},
                   !.pc = IF all THEN AfterParts(eos) ELSE @]
  /\ UNCHANGED <<vorVars, hp, fx, wk, rt, lm, sd, tc>>

\* rt_debugging_end_of_step_stars_mapper on the chunk {k}.
rt_debugging_end_of_step_stars_mapper(k) ==
  /\ eos.pc = "stars"
  /\ k \in (1 .. Len(eos.sparts)) \ eos.mapped
  /\ LET sp == eos.sparts[k]
         all == eos.mapped \cup {k} = 1 .. Len(eos.sparts)
     IN  eos' = [eos EXCEPT
                   !.rt_props.debug_radiation_emitted_this_step =
                      @ + sp.debug_iact_hydro_inject,
                   !.rt_props.debug_radiation_emitted_tot =
                      @ + sp.debug_radiation_emitted_tot,
                   !.sparts[k].debug_iact_hydro_inject = 0,
                   !.sparts[k].debug_iact_hydro_inject_prep = 0,
                   !.mapped = IF all THEN {} ELSE @ \cup {k},
                   !.pc = IF all THEN "compare" ELSE @]
  /\ UNCHANGED <<vorVars, hp, fx, wk, rt, lm, sd, tc>>

\* Faulty variant: only the sums of this step are compared.
RadiationVariesThisStep(props) ==
  props.debug_radiation_emitted_this_step
    # props.debug_radiation_absorbed_this_step

\* "Have we accidentally invented or deleted some radiation somewhere?"
RadiationVaries(props) ==
  \/ props.debug_radiation_emitted_this_step
       # props.debug_radiation_absorbed_this_step
  \/ props.debug_radiation_emitted_tot # props.debug_radiation_absorbed_tot

\* The comparison after the two loops; error() aborts the run.
EndOfStepCompare ==
  /\ eos.pc = "compare"
  /\ eos' = [eos EXCEPT !.pc = IF RadiationVaries(eos.rt_props)
                                 THEN "error" ELSE "done"]
  /\ UNCHANGED <<vorVars, hp, fx, wk, rt, lm, sd, tc>>

InitEndOfStep ==
  /\ GridAtRest
  /\ wk = NoWorkers
  /\ rt = NoRt
  /\ \E policy_rt, with_mpi \in {0, 1},
        ps \in SeqsUpTo(PartDebugs, MaxParts),
        sps \in SeqsUpTo(SpartDebugs, MaxParts) :
       eos = [pc |-> "start", policy_rt |-> policy_rt, with_mpi |-> with_mpi,
              rt_props |-> StaleSums, parts |-> ps, sparts |-> sps,
              mapped |-> {}, entry |-> [parts |-> ps, sparts |-> sps]]
  /\ lm = NoLightcone
  /\ sd = <<>>
  /\ tc = <<>>

NextEndOfStep ==
  \/ EndOfStepEntry
  \/ \E k \in 1 .. MaxParts : rt_debugging_end_of_step_hydro_mapper(k)
  \/ \E k \in 1 .. MaxParts : rt_debugging_end_of_step_stars_mapper(k)
  \/ EndOfStepCompare

SpecEndOfStep == InitEndOfStep /\ [][NextEndOfStep]_vars

(***************************************************************************)
(* lightcone_map_update_from_buffer with MPI: every rank sorts its         *)
(* buffered updates by destination rank, the ranks exchange them, and      *)
(* every rank applies what it received to its part of the map.             *)
(***************************************************************************)
\* MPI_Comm_size.
comm_size == 2

Ranks == 0 .. (comm_size - 1)

\* Numbers of pixels of the whole map (nside2npix).
TotalPixels == {4, 5}

\* Updates (struct lightcone_map_contribution) a rank can have buffered.
Contributions ==
  { [pixel |-> 0, value |-> 1], [pixel |-> 3, value |-> 2],
    [pixel |-> 4, value |-> 1], [pixel |-> 5, value |-> 1] }

\* What the pixels hold before the updates: lightcone_map_allocate_pixels
\* does not initialise them.
PixelValues == {0, 7}

\* Faulty variant: the last rank gets pix_per_rank pixels like the others.
lightcone_map_init_even(total_nr_pix, comm_rank, nr_ranks, buffer, before) ==
  LET pix_per_rank == total_nr_pix \div nr_ranks
  IN  [total_nr_pix |-> total_nr_pix, pix_per_rank |-> pix_per_rank,
       local_nr_pix |-> pix_per_rank, comm_size |-> nr_ranks,
       data |-> [p \in 0 .. (pix_per_rank - 1) |-> before],
       buffer |-> buffer]

\* lightcone_map_init on rank comm_rank of nr_ranks (its parameter
\* comm_size), followed by lightcone_map_allocate_pixels, and the updates
\* buffered since.
lightcone_map_init(total_nr_pix, comm_rank, nr_ranks, buffer, before) ==
  LET pix_per_rank == total_nr_pix \div nr_ranks
      local_nr_pix == IF comm_rank < nr_ranks - 1
                        THEN pix_per_rank
                        ELSE total_nr_pix - (nr_ranks - 1) * pix_per_rank
  IN  [total_nr_pix |-> total_nr_pix, pix_per_rank |-> pix_per_rank,
       local_nr_pix |-> local_nr_pix, comm_size |-> nr_ranks,
       data |-> [p \in 0 .. (local_nr_pix - 1) |-> before],
       buffer |-> buffer]

\* The rank an update is sent to among the map's comm_size ranks.
Dest(map, contr) ==
  LET dest == contr.pixel \div map.pix_per_rank
  IN  IF dest >= map.comm_size THEN map.comm_size - 1 ELSE dest

\* Faulty variant: the offsets into the send buffer are left out.
PopulateSendBufferNoOffset(map, buffer) ==
  LET n == Len(buffer)
      dest(k) == Dest(map, buffer[k])
      count == [d \in Ranks |-> Cardinality({k \in 1 .. n : dest(k) = d})]
      offset == [d \in Ranks |-> Cardinality({k \in 1 .. n : dest(k) < d})]
      slot == [k \in 1 .. n |->
                 Cardinality({j \in 1 .. (k - 1) : dest(j) = dest(k)})]
      writers(at) == {k \in 1 .. n : slot[k] = at}
  IN  [first_count |-> count, send_offset |-> offset, slot |-> slot,
       send_count |-> count,
       sendbuf |-> [at \in 1 .. n |->
                      IF writers(at - 1) = {}
                        THEN [pixel |-> Uninit, value |-> Uninit]
                        ELSE buffer[CHOOSE k \in writers(at - 1) :
                                      \A j \in writers(at - 1) : j <= k]]]

\* The two passes over the buffered updates.  The first counts the updates
\* of each destination (first_count); send_offset[d] is the sum of the counts
\* of the ranks below d; the second pass copies update k to slot
\* send_offset[dest] + send_count[dest] of the send buffer (0-based), where
\* send_count[dest], reset before the pass, is the number of earlier updates
\* with the same destination.  A slot no update is copied to keeps what
\* malloc returned.
PopulateSendBuffer(map, buffer) ==
  LET n == Len(buffer)
      dest(k) == Dest(map, buffer[k])
      count == [d \in Ranks |-> Cardinality({k \in 1 .. n : dest(k) = d})]
      offset == [d \in Ranks |-> Cardinality({k \in 1 .. n : dest(k) < d})]
      slot == [k \in 1 .. n |->
                 offset[dest(k)]
                   + Cardinality({j \in 1 .. (k - 1) : dest(j) = dest(k)})]
      writers(at) == {k \in 1 .. n : slot[k] = at}
  IN  [first_count |-> count, send_offset |-> offset, slot |-> slot,
       send_count |-> count,
       sendbuf |-> [at \in 1 .. n |->
                      IF writers(at - 1) = {}
                        THEN [pixel |-> Uninit, value |-> Uninit]
                        ELSE buffer[CHOOSE k \in writers(at - 1) :
                                      \A j \in writers(at - 1) : j <= k]]]

RECURSIVE Received(_, _, _)
\* What rank dest receives from the ranks from .. comm_size - 1.
Received(sendbuf, dest, from) ==
  IF from >= comm_size THEN <<>>
  ELSE sendbuf[from][dest] \o Received(sendbuf, dest, from + 1)

NobodyAborted == \A r \in Ranks : lm.pc[r] # "error"

\* The rank fills its send buffer and empties the particle buffer;
\* exchange_structs sends send_count[dest] updates to rank dest, starting at
\* the offset of dest.
FillSendBuffer(r) ==
  /\ NobodyAborted
  /\ lm.pc[r] = "start"
  /\ LET filled == PopulateSendBuffer(lm.map[r], lm.map[r].buffer)
     IN  lm' = [lm EXCEPT
                  !.filled[r] = filled,
                  !.sendbuf[r] =
                     [dest \in Ranks |->
                        SubSeq(filled.sendbuf, filled.send_offset[dest] + 1,
                               filled.send_offset[dest]
                                 + filled.send_count[dest])],
                  !.map[r].buffer = <<>>,
                  !.pc[r] = "sent"]
  /\ UNCHANGED <<vorVars, hp, fx, wk, rt, eos, sd, tc>>

\* MPI_Alltoall and exchange_structs: every rank gets its updates.
ExchangeStructs ==
  /\ \A r \in Ranks : lm.pc[r] = "sent"
  /\ lm' = [lm EXCEPT
              !.recvbuf = [r \in Ranks |-> Received(lm.sendbuf, r, 0)],
              !.i = [r \in Ranks |-> 0],
              !.pc = [r \in Ranks |->
                        IF Received(lm.sendbuf, r, 0) = <<>>
                          THEN "done" ELSE "apply"]]
  /\ UNCHANGED <<vorVars, hp, fx, wk, rt, eos, sd, tc>>

\* Faulty variant: the last local pixel index is taken one too far.
PixelOutOfRangeInclusive(map, pixel, pixel_offset) ==
  pixel < pixel_offset \/ pixel - pixel_offset > map.local_nr_pix

\* The test before an update is applied; local_pixel is unsigned, so it is
\* meaningful only when the first test fails.
PixelOutOfRange(map, pixel, pixel_offset) ==
  pixel < pixel_offset \/ pixel - pixel_offset >= map.local_nr_pix

\* One turn of the loop over the received updates.  error() ends in
\* MPI_Abort, which stops every rank.
ApplyUpdate(r) ==
  /\ NobodyAborted
  /\ lm.pc[r] = "apply"
  /\ LET contr == lm.recvbuf[r][lm.i[r] + 1]
         pixel_offset == lm.map[r].pix_per_rank * r
         local_pixel == contr.pixel - pixel_offset
     IN  lm' = IF PixelOutOfRange(lm.map[r], contr.pixel, pixel_offset)
                 THEN [lm EXCEPT !.pc[r] = "error"]
                 ELSE [lm EXCEPT
                         !.map[r].data[local_pixel] = @ + contr.value,
                         !.i[r] = @ + 1,
                         !.pc[r] = IF lm.i[r] + 1 = Len(lm.recvbuf[r])
                                     THEN "done" ELSE "apply"]
  /\ UNCHANGED <<vorVars, hp, fx, wk, rt, eos, sd, tc>>

\* One turn of the loop of the build without MPI: the update is added to
\* the pixel of the map, which holds all pixels.  Nothing tests the pixel
\* index; a write outside the map is undefined: the program may go on with
\* the map as it is or end in any other way.
UpdateSerial ==
  /\ lm.pc[0] = "serial"
  /\ LET map == lm.map[0]
         done == lm.i[0] = Len(map.buffer)
         contr == map.buffer[lm.i[0] + 1]
     IN  \/ /\ done
            /\ lm' = [lm EXCEPT !.map[0].buffer = <<>>, !.pc[0] = "updated"]
         \/ /\ ~done
            /\ contr.pixel \in DOMAIN map.data
            /\ lm' = [lm EXCEPT !.map[0].data[contr.pixel] = @ + contr.value,
                                !.i[0] = @ + 1]
         \/ /\ ~done
            /\ contr.pixel \notin DOMAIN map.data
            /\ \/ lm' = [lm EXCEPT !.i[0] = @ + 1]
               \/ lm' = [lm EXCEPT !.pc[0] = "undefined"]
  /\ UNCHANGED <<vorVars, hp, fx, wk, rt, eos, sd, tc>>

\* The program runs on comm_size ranks, or is built without MPI and holds
\* the whole map in one process (rank 1 is then absent and holds no pixel).
InitLightcone ==
  /\ GridAtRest
  /\ wk = NoWorkers
  /\ rt = NoRt
  /\ eos = NoEndOfStep
  /\ sd = <<>>
  /\ tc = <<>>
  /\ \E total_nr_pix \in TotalPixels, before \in PixelValues,
        buffers \in [Ranks -> SeqsUpTo(Contributions, MaxContributions)],
        with_mpi \in {0, 1} :
       /\ with_mpi = 0 => buffers[1] = <<>>
       /\ lm = [map |-> [r \in Ranks |->
                           IF with_mpi = 1
                             THEN lightcone_map_init(total_nr_pix, r, comm_size,
                                                     buffers[r], before)
                             ELSE lightcone_map_init((1 - r) * total_nr_pix, 0, 1,
                                                     buffers[r], before)],
                before |-> before,
                with_mpi |-> with_mpi,
                buffered |-> buffers,
                filled |-> [r \in Ranks |-> <<>>],
                sendbuf |-> [r \in Ranks |-> [dest \in Ranks |-> <<>>]],
                recvbuf |-> [r \in Ranks |-> <<>>],
                i |-> [r \in Ranks |-> 0],
                pc |-> [r \in Ranks |->
                          IF with_mpi = 1 THEN "start"
                          ELSE IF r = 0 THEN "serial" ELSE "absent"]]

NextLightcone ==
  \/ \E r \in Ranks : FillSendBuffer(r)
  \/ ExchangeStructs
  \/ \E r \in Ranks : ApplyUpdate(r)
  \/ UpdateSerial

SpecLightcone == InitLightcone /\ [][NextLightcone]_vars
(***************************************************************************)
(* The gradient and the slope limiter pass over one face.  The gradients   *)
(* and the limiter of a particle are indexed like its primitive variables: *)
(* density, three velocity components, pressure.                           *)
(***************************************************************************)
\* The contribution of one face to the gradient grad of one quantity: the
\* area-weighted, geometrically corrected finite difference of qL and qR.
\* cLR is twice the correction vector, which keeps the midpoint integral;
\* NaN stands for the non-finite result of a division by rLR = 0.
hydro_gradients_single_quantity(qL, qR, cLR, xLR, rLR, A, grad) ==
  [k \in 1 .. 3 |->
     LET d == FDiv(A * ((qR - qL) * cLR[k] - (qL + qR) * xLR[k]), 2 * rLR)
     IN  IF d = NaN \/ grad[k] = NaN THEN NaN ELSE grad[k] + d]

\* The extrema of the neighbours' primitive variables, with pj added.
hydro_slope_limit_cell_collect(pi, pj, f) ==
  LET Wj == hydro_part_get_primitive_variables(pj)
  IN  [pi EXCEPT !.limiter =
         [lo |-> [q \in 1 .. 5 |-> Min2(Wj[q], pi.limiter.lo[q])],
          hi |-> [q \in 1 .. 5 |-> Max2(Wj[q], pi.limiter.hi[q])]]]

\* Faulty variant: there is no early return for a face of area zero.
runner_iact_slope_estimate_no_return(i, j, centroid, surface_area, shift) ==
  /\ fx.n < MaxSlopeCalls
  /\ i # j
  /\ hp[i].flux.dt >= 0
  /\ LET pi == hp[i]
         pj == hp[j]
         dx == [k \in 1 .. 3 |-> pi.x[k] - pj.x[k] - shift[k]]
         r == ISqrt(Dot3(dx, dx))
         c == [k \in 1 .. 3 |-> 2 * centroid[k] - (pi.x[k] + pj.x[k] + shift[k])]
         mindx == [k \in 1 .. 3 |-> -dx[k]]
         Wi == hydro_part_get_primitive_variables(pi)
         Wj == hydro_part_get_primitive_variables(pj)
         gi == [q \in 1 .. 5 |->
                  hydro_gradients_single_quantity(Wi[q], Wj[q], c, dx, r,
                                                  surface_area, pi.gradients[q])]
         gj == [q \in 1 .. 5 |->
                  hydro_gradients_single_quantity(Wj[q], Wi[q], c, mindx, r,
                                                  surface_area, pj.gradients[q])]
     IN  /\ hp' = [hp EXCEPT ![i].gradients = gi,
                             ![j].gradients = IF pj.flux.dt >= 0 THEN gj ELSE @]
         /\ fx' = [n |-> fx.n + 1, op |-> "slope_estimate", i |-> i, j |-> j,
                   centroid |-> centroid, surface_area |-> surface_area,
                   shift |-> shift, before |-> hp]
  /\ UNCHANGED <<vorVars, restVars>>

\* Faulty variant: the gradients of pj are updated also when pj is not active.
runner_iact_slope_estimate_both(i, j, centroid, surface_area, shift) ==
  /\ fx.n < MaxSlopeCalls
  /\ i # j
  /\ hp[i].flux.dt >= 0
  /\ LET pi == hp[i]
         pj == hp[j]
         dx == [k \in 1 .. 3 |-> pi.x[k] - pj.x[k] - shift[k]]
         r == ISqrt(Dot3(dx, dx))
         c == [k \in 1 .. 3 |-> 2 * centroid[k] - (pi.x[k] + pj.x[k] + shift[k])]
         mindx == [k \in 1 .. 3 |-> -dx[k]]
         Wi == hydro_part_get_primitive_variables(pi)
         Wj == hydro_part_get_primitive_variables(pj)
         gi == [q \in 1 .. 5 |->
                  hydro_gradients_single_quantity(Wi[q], Wj[q], c, dx, r,
                                                  surface_area, pi.gradients[q])]
         gj == [q \in 1 .. 5 |->
                  hydro_gradients_single_quantity(Wj[q], Wi[q], c, mindx, r,
                                                  surface_area, pj.gradients[q])]
     IN  /\ hp' = IF surface_area = 0 THEN hp
                  ELSE [hp EXCEPT ![i].gradients = gi, ![j].gradients = gj]
         /\ fx' = [n |-> fx.n + 1, op |-> "slope_estimate", i |-> i, j |-> j,
                   centroid |-> centroid, surface_area |-> surface_area,
                   shift |-> shift, before |-> hp]
  /\ UNCHANGED <<vorVars, restVars>>

\* The gradient pass over the face between pi = hp[i], which is active,
\* and pj = hp[j].
runner_iact_slope_estimate(i, j, centroid, surface_area, shift) ==
  /\ fx.n < MaxSlopeCalls
  /\ i # j
  /\ hp[i].flux.dt >= 0
  /\ LET pi == hp[i]
         pj == hp[j]
         dx == [k \in 1 .. 3 |-> pi.x[k] - pj.x[k] - shift[k]]
         r == ISqrt(Dot3(dx, dx))
         c == [k \in 1 .. 3 |-> 2 * centroid[k] - (pi.x[k] + pj.x[k] + shift[k])]
         mindx == [k \in 1 .. 3 |-> -dx[k]]
         Wi == hydro_part_get_primitive_variables(pi)
         Wj == hydro_part_get_primitive_variables(pj)
         gi == [q \in 1 .. 5 |->
                  hydro_gradients_single_quantity(Wi[q], Wj[q], c, dx, r,
                                                  surface_area, pi.gradients[q])]
         gj == [q \in 1 .. 5 |->
                  hydro_gradients_single_quantity(Wj[q], Wi[q], c, mindx, r,
                                                  surface_area, pj.gradients[q])]
     IN  /\ hp' = IF surface_area = 0 THEN hp
                  ELSE [hp EXCEPT ![i].gradients = gi,
                                  ![j].gradients = IF pj.flux.dt >= 0 THEN gj ELSE @]
         /\ fx' = [n |-> fx.n + 1, op |-> "slope_estimate", i |-> i, j |-> j,
                   centroid |-> centroid, surface_area |-> surface_area,
                   shift |-> shift, before |-> hp]
  /\ UNCHANGED <<vorVars, restVars>>

\* Faulty variant: pj collects the extrema also when it is not active.
runner_iact_slope_limiter_both(i, j, centroid, surface_area, shift) ==
  /\ fx.n < MaxSlopeCalls
  /\ i # j
  /\ hp[i].flux.dt >= 0
  /\ LET pi == hp[i]
         pj == hp[j]
         f_ij == [k \in 1 .. 3 |-> centroid[k] - pi.x[k]]
         f_ji == [k \in 1 .. 3 |-> centroid[k] - pj.x[k] - shift[k]]
     IN  /\ hp' = [hp EXCEPT ![i] = hydro_slope_limit_cell_collect(pi, pj, f_ij),
                             ![j] = hydro_slope_limit_cell_collect(pj, pi, f_ji)]
         /\ fx' = [n |-> fx.n + 1, op |-> "slope_limiter", i |-> i, j |-> j,
                   centroid |-> centroid, surface_area |-> surface_area,
                   shift |-> shift, before |-> hp]
  /\ UNCHANGED <<vorVars, restVars>>

\* The limiter pass over the face between pi = hp[i], which is active,
\* and pj = hp[j]; the area of the face is not looked at.
runner_iact_slope_limiter(i, j, centroid, surface_area, shift) ==
  /\ fx.n < MaxSlopeCalls
  /\ i # j
  /\ hp[i].flux.dt >= 0
  /\ LET pi == hp[i]
         pj == hp[j]
         f_ij == [k \in 1 .. 3 |-> centroid[k] - pi.x[k]]
         f_ji == [k \in 1 .. 3 |-> centroid[k] - pj.x[k] - shift[k]]
     IN  /\ hp' = [hp EXCEPT ![i] = hydro_slope_limit_cell_collect(pi, pj, f_ij),
                             ![j] = IF pj.flux.dt >= 0
                                      THEN hydro_slope_limit_cell_collect(pj, pi, f_ji)
                                      ELSE @]
         /\ fx' = [n |-> fx.n + 1, op |-> "slope_limiter", i |-> i, j |-> j,
                   centroid |-> centroid, surface_area |-> surface_area,
                   shift |-> shift, before |-> hp]
  /\ UNCHANGED <<vorVars, restVars>>

\* The two passes over the faces of a finished grid.
InitSlope ==
  /\ dcfg = 1
  /\ part_is_active = [i \in 0 .. (Count(D) - 1) |-> 0]
  /\ parts = [i \in 0 .. (Count(D) - 1) |->
                [x |-> <<Vertex(D, i + D.vertex_start)[1],
                         Vertex(D, i + D.vertex_start)[2], 0>>,
                 geometry |-> StaleGeometry(0)]]
  /\ v = voronoi_malloc(Count(D), 1)
  /\ b = [BuildEntry(D) EXCEPT !.pc = "done", !.vertices = <<>>]
  /\ call = NoCall
  /\ reads = {}
  /\ rst = NoReset
  /\ wk = NoWorkers
  /\ rt = NoRt
  /\ eos = NoEndOfStep
  /\ lm = NoLightcone
  /\ sd = <<>>
  /\ tc = <<>>
  /\ hp \in { [k \in HydroIds |-> HydroPart(k, dts[k])] : dts \in [HydroIds -> {-1, 0, 1}] }
  /\ fx = [n |-> 0, op |-> "none", i |-> 0, j |-> 0, centroid |-> <<0, 0, 0>>,
           surface_area |-> 0, shift |-> <<0, 0, 0>>, before |-> hp]

\* The faces of the two passes: centroid and shift of pj.  The second shift
\* puts particle 1 onto particle 0.
SlopeFaces == { <<<<1, 1, 0>>, <<0, 0, 0>>>>, <<<<2, 1, 0>>, <<-2, 0, 0>>>> }

NextSlope ==
  \E i, j \in HydroIds, face \in SlopeFaces, surface_area \in {0, 2} :
     \/ runner_iact_slope_estimate(i, j, face[1], surface_area, face[2])
     \/ runner_iact_slope_limiter(i, j, face[1], surface_area, face[2])

SpecSlope == InitSlope /\ [][NextSlope]_vars


(***************************************************************************)
(* The kick counter of the RT debugging scheme along the task sequences    *)
(* documented in rt_debug_sequence_check.  A task is <<name, a, c>>:       *)
(* "start" is rt_debugging_start_of_step_hydro_mapper with a the value of  *)
(* part_is_active and c that of part_is_rt_active, "hydro" the hydro tasks *)
(* (they reset the counters), "kick2" and "kick1" the kicks (a = 1 when    *)
(* the kick counts, which kick1 does for a starting particle only),        *)
(* "timestep" the time-step task (a = 1 when the particle is hydro active  *)
(* afterwards) and "rt" one RT subcycle, which runs the four stages of the *)
(* pipeline and is repeated when c = 1.                                    *)
(***************************************************************************)
KickSequences ==
  << \* 1) hydro active, remains hydro active after the time-step task
     << <<"start", 1, 1>>, <<"hydro", 0, 0>>, <<"kick2", 1, 0>>, <<"rt", 0, 0>>,
        <<"timestep", 1, 0>>, <<"kick1", 1, 0>>, <<"rt", 0, 0>>, <<"rt", 0, 1>> >>,
     \* 2) hydro active, becomes hydro inactive after the time-step task
     << <<"start", 1, 1>>, <<"hydro", 0, 0>>, <<"kick2", 1, 0>>, <<"rt", 0, 0>>,
        <<"timestep", 0, 0>>, <<"kick1", 1, 0>>, <<"rt", 0, 0>>, <<"rt", 0, 1>> >>,
     \* 3) hydro inactive, remains hydro inactive
     << <<"start", 0, 1>>, <<"rt", 0, 0>>, <<"timestep", 0, 0>>, <<"rt", 0, 0>>,
        <<"rt", 0, 1>> >>,
     \* 4) hydro inactive, becomes active: kick1 does not count
     << <<"start", 0, 1>>, <<"rt", 0, 0>>, <<"timestep", 1, 0>>, <<"kick1", 0, 0>>,
        <<"rt", 0, 0>>, <<"rt", 0, 1>>, <<"start", 1, 1>>, <<"hydro", 0, 0>>,
        <<"kick2", 1, 0>>, <<"rt", 0, 0>> >>,
     \* 5) hydro active, not RT active after hydro: the zeroth subcycle comes
     \*    after kick1
     << <<"start", 1, 0>>, <<"hydro", 0, 0>>, <<"kick2", 1, 0>>,
        <<"timestep", 1, 0>>, <<"kick1", 1, 0>>, <<"rt", 0, 0>>, <<"rt", 0, 1>> >> >>

\* rt_debugging_start_of_step_hydro_mapper on the particle.
StartOfStep ==
  /\ rt.pc = "run"
  /\ rt.todo # <<>>
  /\ Head(rt.todo)[1] = "start"
  /\ LET active == Head(rt.todo)[2]
         rt_active == Head(rt.todo)[3]
     IN  rt' = [rt EXCEPT
                  !.p.debug_rt_zeroth_cycle_on_main_step =
                     IF rt_active # 0 /\ active # 0 THEN 1 ELSE 0,
                  !.todo = Tail(@)]
  /\ UNCHANGED <<vorVars, hp, fx, wk, eos, lm, sd, tc>>

\* The hydro, kick and time-step tasks: what they do to the counters.
KickTask ==
  /\ rt.pc = "run"
  /\ rt.todo # <<>>
  /\ Head(rt.todo)[1] \in {"hydro", "kick2", "kick1", "timestep"}
  /\ LET task == Head(rt.todo)
     IN  rt' = [rt EXCEPT
                  !.p.debug_kicked =
                     CASE task[1] = "hydro" -> 0
                       [] task[1] \in {"kick2", "kick1"} -> @ + task[2]
                       [] OTHER -> @,
                  !.p.debug_nsubcycles = IF task[1] = "hydro" THEN 0 ELSE @,
                  !.todo = Tail(@)]
  /\ UNCHANGED <<vorVars, hp, fx, wk, eos, lm, sd, tc>>

\* One RT subcycle: each stage of the pipeline checks the sequence and
\* counts itself; after the last one the particle is reset for the next
\* subcycle (rt_debugging_reset_each_subcycle) and the subcycle is counted
\* (rt_debugging_count_subcycle).
Subcycle ==
  /\ rt.pc = "run"
  /\ rt.todo # <<>>
  /\ Head(rt.todo)[1] = "rt"
  /\ LET stage == Len(rt.trace) + 1
         e == rt_debug_sequence_check(rt.p, stage)
     IN  \/ /\ stage \in RtStages
            /\ rt' = IF e = "none"
                       THEN [Checked(stage, e) EXCEPT
                               !.p = StageDone(@, stage),
                               !.trace = Append(@, stage),
                               !.checks = @ + 1]
                       ELSE Checked(stage, e)
         \/ /\ stage \notin RtStages
            /\ \E again \in {0, Head(rt.todo)[3]} :
                 /\ again # 0 => rt.p.debug_nsubcycles + 1 < MaxSubcycles
                 /\ rt' = [rt EXCEPT
                             !.p = [rt_debugging_reset_each_subcycle(@) EXCEPT
                                      !.debug_nsubcycles = @ + 1],
                             !.trace = <<>>,
                             !.todo = IF again # 0 THEN @ ELSE Tail(@)]
  /\ UNCHANGED <<vorVars, hp, fx, wk, eos, lm, sd, tc>>

\* The particle has been drifted, kicked twice and has run one or two
\* subcycles since the last hydro task.
InitKick ==
  /\ GridAtRest
  /\ wk = NoWorkers
  /\ \E scenario \in 1 .. Len(KickSequences), nsubcycles \in {1, 2},
        zeroth \in {0, 1} :
       rt = [p |-> RtPart(1, 2, nsubcycles, zeroth, 0), pc |-> "run",
             loc |-> -1, err |-> "none", trace |-> <<>>,
             scenario |-> scenario, todo |-> KickSequences[scenario],
             checks |-> 0]
  /\ eos = NoEndOfStep
  /\ lm = NoLightcone
  /\ sd = <<>>
  /\ tc = <<>>

\* The particle goes through one of the documented task sequences.
SpecKick == InitKick /\ [][StartOfStep \/ KickTask \/ Subcycle]_vars

(***************************************************************************)
(* Self-interacting dark matter: the scattering of pairs of gravity        *)
(* particles (struct gpart with its sidm_data).  Velocities are vectors of *)
(* even integers, so that the halves the kick takes are exact; the random  *)
(* numbers of the kick are the choice of the unit vector e and of whether  *)
(* the pair scatters.                                                      *)
(***************************************************************************)
\* Faulty variant: the velocities after the kick are both VCM + dv * e.
sidm_do_kick_same_sign(gpj, gpi, e) ==
  LET VCM == [k \in 1 .. 3 |-> (gpi.v_full[k] + gpj.v_full[k]) \div 2]
      dw == [k \in 1 .. 3 |-> gpi.v_full[k] - gpj.v_full[k]]
      dv == ISqrt(Dot3(dw, dw)) \div 2
  IN  << [gpj EXCEPT
            !.sidm_data.si_v_full =
               IF gpj.sidm_data.test_flag > 0
                 THEN [k \in 1 .. 3 |-> VCM[k] + dv * e[k]] ELSE @,
            !.sidm_data.sidm_flag = 1,
            !.sidm_data.num_sidm = @ + 1],
         [gpi EXCEPT
            !.sidm_data.si_v_full =
               IF gpi.sidm_data.test_flag > 0
                 THEN [k \in 1 .. 3 |-> VCM[k] + dv * e[k]] ELSE @,
            !.sidm_data.sidm_flag = 1,
            !.sidm_data.num_sidm = @ + 1] >>

\* sidm_do_kick(gpj, gpi, ti_current): the two particles after the kick.
sidm_do_kick(gpj, gpi, e) ==
  LET VCM == [k \in 1 .. 3 |-> (gpi.v_full[k] + gpj.v_full[k]) \div 2]
      dw == [k \in 1 .. 3 |-> gpi.v_full[k] - gpj.v_full[k]]
      dv == ISqrt(Dot3(dw, dw)) \div 2
  IN  << [gpj EXCEPT
            !.sidm_data.si_v_full =
               IF gpj.sidm_data.test_flag > 0
                 THEN [k \in 1 .. 3 |-> VCM[k] + dv * e[k]] ELSE @,
            !.sidm_data.sidm_flag = 1,
            !.sidm_data.num_sidm = @ + 1],
         [gpi EXCEPT
            !.sidm_data.si_v_full =
               IF gpi.sidm_data.test_flag > 0
                 THEN [k \in 1 .. 3 |-> VCM[k] - dv * e[k]] ELSE @,
            !.sidm_data.sidm_flag = 1,
            !.sidm_data.num_sidm = @ + 1] >>

\* Faulty variant: one of the two particles not having scattered is enough.
runner_iact_sidm_either(i, j, lucky, e) ==
  /\ sd # <<>>
  /\ LET gpi == sd.gp[i]
         gpj == sd.gp[j]
         kicked == sidm_do_kick(gpj, gpi, e)
     IN  sd' = IF lucky /\ (gpj.sidm_data.num_sidm < 1 \/ gpi.sidm_data.num_sidm < 1)
                    /\ gpj.sidm_data.test_flag # gpi.sidm_data.test_flag
                 THEN [sd EXCEPT
                         !.gp = [@ EXCEPT ![j] = kicked[1], ![i] = kicked[2]],
                         !.kicks = [@ EXCEPT ![j] = @ + 1, ![i] = @ + 1],
                         !.scattered =
                            @ \cup {[i |-> i, j |-> j,
                                     vi |-> gpi.v_full, vj |-> gpj.v_full]},
                         !.told = @ \ {i, j}]
                 ELSE sd
  /\ UNCHANGED <<vorVars, hp, fx, wk, rt, eos, lm, tc>>

\* runner_iact_sidm(h_SI, gpi, gpj, ...) on particles i and j.  lucky is the
\* outcome of 'Probability_SIDM_ij > rand'.  kicks, scattered, told and
\* refused keep the history: the kicks of each particle, the pairs kicked
\* with their velocities before, the particles whose kick has been
\* communicated, and whether a lucky pair has been turned down.
runner_iact_sidm(i, j, lucky, e) ==
  /\ sd # <<>>
  /\ LET gpi == sd.gp[i]
         gpj == sd.gp[j]
         kicked == sidm_do_kick(gpj, gpi, e)
     IN  sd' = IF lucky /\ gpj.sidm_data.num_sidm < 1 /\ gpi.sidm_data.num_sidm < 1
                    /\ gpj.sidm_data.test_flag # gpi.sidm_data.test_flag
                 THEN [sd EXCEPT
                         !.gp = [@ EXCEPT ![j] = kicked[1], ![i] = kicked[2]],
                         !.kicks = [@ EXCEPT ![j] = @ + 1, ![i] = @ + 1],
                         !.scattered =
                            @ \cup {[i |-> i, j |-> j,
                                     vi |-> gpi.v_full, vj |-> gpj.v_full]},
                         !.told = @ \ {i, j}]
                 ELSE IF lucky
                        /\ gpj.sidm_data.test_flag # gpi.sidm_data.test_flag
                        THEN [sd EXCEPT !.refused = 1]
                        ELSE sd
  /\ UNCHANGED <<vorVars, hp, fx, wk, rt, eos, lm, tc>>

\* sidm_reset(gp) on particle k.
sidm_reset(k) ==
  /\ sd # <<>>
  /\ sd' = [sd EXCEPT !.gp[k].sidm_data.sidm_flag = 0,
                      !.gp[k].sidm_data.si_v_full = <<0, 0, 0>>]
  /\ UNCHANGED <<vorVars, hp, fx, wk, rt, eos, lm, tc>>

\* communicate_sidm_kick_to_gpart(gp) on particle k, with the sidm_reset it
\* ends with.
communicate_sidm_kick_to_gpart(k) ==
  /\ sd # <<>>
  /\ LET gp == sd.gp[k]
     IN  sd' = [sd EXCEPT
                  !.gp[k] = IF gp.sidm_data.sidm_flag > 0
                              THEN [gp EXCEPT
                                      !.v_full = gp.sidm_data.si_v_full,
                                      !.sidm_data.sidm_flag = 0,
                                      !.sidm_data.si_v_full = <<0, 0, 0>>]
                              ELSE gp,
                  !.told = IF sd.kicks[k] > 0 THEN @ \cup {k} ELSE @]
  /\ UNCHANGED <<vorVars, hp, fx, wk, rt, eos, lm, tc>>

\* Three particles that have not scattered, inside (test_flag 1, 2) or
\* outside (test_flag 0) the test cube.
InitSidm ==
  /\ GridAtRest
  /\ wk = NoWorkers
  /\ rt = NoRt
  /\ eos = NoEndOfStep
  /\ lm = NoLightcone
  /\ tc = <<>>
  /\ \E test_flag \in [0 .. 2 -> {0, 1, 2}],
        v_full \in [0 .. 2 -> {<<0, 0, 0>>, <<4, 0, 0>>}] :
       sd = [gp |-> [k \in 0 .. 2 |->
                       [v_full |-> v_full[k],
                        sidm_data |-> [test_flag |-> test_flag[k],
                                       si_v_full |-> <<0, 0, 0>>,
                                       sidm_flag |-> 0, num_sidm |-> 0]]],
             kicks |-> [k \in 0 .. 2 |-> 0],
             scattered |-> {}, told |-> {}, refused |-> 0]

\* Any sequence of calls on the three particles.
NextSidm ==
  \/ \E i, j \in DOMAIN sd.gp, lucky \in BOOLEAN,
        e \in {<<0, 0, 1>>, <<1, 0, 0>>, <<0, -1, 0>>} :
       runner_iact_sidm(i, j, lucky, e)
  \/ \E k \in DOMAIN sd.gp : sidm_reset(k)
  \/ \E k \in DOMAIN sd.gp : communicate_sidm_kick_to_gpart(k)

SpecSidm == InitSidm /\ [][NextSidm]_vars

(***************************************************************************)
(* rt_do_thermochemistry and its recursion.  tc.stack holds the calls in   *)
(* progress, the innermost last: its time step dt, its depth, and where it *)
(* is ("entry": at its start; "first", "second": waiting for its first or  *)
(* second recursive call).  The chemistry solver is outside the program:   *)
(* it may fail, and the internal energy it returns is the old one, twice   *)
(* the old one or zero.  Time steps are powers of two, so that their       *)
(* halves are exact.  applied, leaves and deepest keep the history: the    *)
(* sum of the time steps written to the particle, their number and the     *)
(* largest depth of a call.                                                *)
(***************************************************************************)
\* Faulty variant: a call at depth max_tchem_recursion subdivides once more.
rt_do_thermochemistry_deeper ==
  /\ tc # <<>>
  /\ tc.status = "run"
  /\ tc.stack # <<>>
  /\ LET n == Len(tc.stack)
         top == tc.stack[n]
         return == [tc EXCEPT !.stack = SubSeq(@, 1, n - 1)]
         recurse == [tc EXCEPT
                    !.stack = Append([@ EXCEPT ![n].pc =
                                        IF top.pc = "entry" THEN "first"
                                        ELSE "second"],
                                     [dt |-> top.dt \div 2,
                                      depth |-> top.depth + 1, pc |-> "entry"]),
                    !.deepest = Max2(@, top.depth + 1)]
         u_old == Max2(tc.p.u, tc.u_minimal)
     IN  CASE top.pc = "second" -> tc' = return
           [] top.pc = "first" -> tc' = recurse
           [] tc.rt_props.skip_thermochemistry # 0 \/ top.dt = 0
                \/ tc.p.rho <= 0 -> tc' = return
           [] OTHER ->
                \E solved \in {0, 1}, internal_energy \in {0, u_old, 2 * u_old},
                   f \in {0, 1} :
                  LET u_new == Max2(internal_energy, tc.u_minimal)
                  IN  tc' = IF solved = 0
                              THEN [tc EXCEPT !.status = "error"]
                            ELSE IF tc.rt_props.max_tchem_recursion >= top.depth
                                      /\ 10 * Abs(u_old - u_new) > u_old
                              THEN recurse
                            ELSE [return EXCEPT
                                    !.p.u = u_new,
                                    !.p.mass_fraction = internal_energy,
                                    !.p.energy_density = @ * (1 - f),
                                    !.applied = @ + top.dt,
                                    !.leaves = @ + 1]
  /\ UNCHANGED <<vorVars, hp, fx, wk, rt, eos, lm, sd>>

\* One step of the innermost call of rt_do_thermochemistry: from its entry
\* to its return or its first recursive call, from the return of the first
\* recursive call to the second, or from the return of the second to its
\* own return.  error() ends the program.
rt_do_thermochemistry ==
  /\ tc # <<>>
  /\ tc.status = "run"
  /\ tc.stack # <<>>
  /\ LET n == Len(tc.stack)
         top == tc.stack[n]
         return == [tc EXCEPT !.stack = SubSeq(@, 1, n - 1)]
         recurse == [tc EXCEPT
                    !.stack = Append([@ EXCEPT ![n].pc =
                                        IF top.pc = "entry" THEN "first"
                                        ELSE "second"],
                                     [dt |-> top.dt \div 2,
                                      depth |-> top.depth + 1, pc |-> "entry"]),
                    !.deepest = Max2(@, top.depth + 1)]
         u_old == Max2(tc.p.u, tc.u_minimal)
     IN  CASE top.pc = "second" -> tc' = return
           [] top.pc = "first" -> tc' = recurse
           [] tc.rt_props.skip_thermochemistry # 0 \/ top.dt = 0
                \/ tc.p.rho <= 0 -> tc' = return
           [] OTHER ->
                \E solved \in {0, 1}, internal_energy \in {0, u_old, 2 * u_old},
                   f \in {0, 1} :
                  LET u_new == Max2(internal_energy, tc.u_minimal)
                  IN  tc' = IF solved = 0
                              THEN [tc EXCEPT !.status = "error"]
                            ELSE IF tc.rt_props.max_tchem_recursion > top.depth
                                      /\ 10 * Abs(u_old - u_new) > u_old
                              THEN recurse
                            ELSE [return EXCEPT
                                    !.p.u = u_new,
                                    !.p.mass_fraction = internal_energy,
                                    !.p.energy_density = @ * (1 - f),
                                    !.applied = @ + top.dt,
                                    !.leaves = @ + 1]
  /\ UNCHANGED <<vorVars, hp, fx, wk, rt, eos, lm, sd>>

\* The thermochemistry task calls rt_do_thermochemistry(p, ..., dt, 0).
InitTchem ==
  /\ GridAtRest
  /\ wk = NoWorkers
  /\ rt = NoRt
  /\ eos = NoEndOfStep
  /\ lm = NoLightcone
  /\ sd = <<>>
  /\ \E dt \in {0, 8, 16}, rho \in {0, 1}, u \in {0, 10},
        skip_thermochemistry \in {0, 1},
        max_tchem_recursion \in 0 .. MaxRecursion :
       tc = [p |-> [rho |-> rho, u |-> u, mass_fraction |-> 0,
                    energy_density |-> 4],
             u_minimal |-> 1,
             rt_props |-> [skip_thermochemistry |-> skip_thermochemistry,
                           max_tchem_recursion |-> max_tchem_recursion],
             dt |-> dt,
             stack |-> << [dt |-> dt, depth |-> 0, pc |-> "entry"] >>,
             status |-> "run", applied |-> 0, leaves |-> 0, deepest |-> 0]

\* The call is scheduled until it returns.
SpecTchem ==
  InitTchem /\ [][rt_do_thermochemistry]_vars /\ WF_vars(rt_do_thermochemistry)
(***************************************************************************)
(* Vocabulary of the properties.                                           *)
(***************************************************************************)
\* The build has finished and the caller made no further call.
BuildDone == b.pc = "done" /\ call.extra = 0

LocalIds == 0 .. (Count(D) - 1)

\* Delaunay index of local generator i.
Del(i) == i + D.vertex_start

\* Length of the dual face between two Delaunay vertices that share an edge.
FaceArea(a, c) ==
  LET e == FaceEnds(D, a, c)
  IN  voronoi_compute_midpoint_area_face(e[1][1], e[1][2], e[2][1], e[2][2])

Degenerate(a, c) == FaceArea(a, c) < v.min_surface_area

\* Local generators i and k share a face that is not degenerate.
ShareFace(i, k) == Neighbours(D, Del(i), Del(k)) /\ ~Degenerate(Del(i), Del(k))

\* The slots of bucket sid that hold a pair of the current grid.
Slots(sid) == 0 .. (v.pair_index[sid] - 1)

\* The slots of bucket 13 whose pair connects local generators i and k.
SlotsBetween(i, k) ==
  { s \in Slots(13) :
      LET p == PairAt(v, 13, s)
      IN  \/ p.left_idx = i /\ p.right_idx = k
          \/ p.left_idx = k /\ p.right_idx = i }

\* The positions of the connectivity queue that form the span of cell i.
Span(i) ==
  { q \in 0 .. (v.cell_pair_connections.index - 1) :
      /\ q >= parts[i].geometry.pair_connections_offset
      /\ q < parts[i].geometry.pair_connections_offset + parts[i].geometry.nface }

\* The positions in the span of cell i that refer to slot s of bucket sid.
RefsIn(i, s, sid) == { q \in Span(i) : ConnAt(v, q) = <<s, sid>> }

\* voronoi_add_pair was called in this step.
AddPairCalled == call'.n = call.n + 1

(***************************************************************************)
(* C1: after voronoi_build on a fresh grid, two local generators that      *)
(* share a non-degenerate face and of which at least one is active have    *)
(* exactly one pair in bucket 13.                                          *)
(***************************************************************************)
C1_ExactlyOnePair ==
  BuildDone =>
    \A i, k \in LocalIds :
      (i < k /\ (part_is_active[i] = 1 \/ part_is_active[k] = 1) /\ ShareFace(i, k))
        => Cardinality(SlotsBetween(i, k)) = 1

\* Both end points are active: the face was discovered from both ring walks.
C1_Witness ==
  /\ BuildDone
  /\ \E i, k \in LocalIds :
       /\ i < k
       /\ part_is_active[i] = 1 /\ part_is_active[k] = 1
       /\ ShareFace(i, k)
       /\ Cardinality(SlotsBetween(i, k)) = 1
       /\ parts[i].geometry.nface > 0 /\ parts[k].geometry.nface > 0

(***************************************************************************)
(* C3: a face whose surface area is below min_surface_area is never stored *)
(* and is counted in the nface of neither of its cells: every stored pair  *)
(* has surface_area >= min_surface_area, every voronoi_add_pair call of    *)
(* the build for such a face returns 0 (the insertion of the first walker  *)
(* and the lookup of the second), and so no cell counts more faces than it *)
(* has non-degenerate ones.                                                *)
(***************************************************************************)
\* The vertices whose face with local generator i is not degenerate.
ProperNeighbours(i) ==
  { k \in 0 .. (Len(D.vertices) - 1) :
      Neighbours(D, Del(i), k) /\ ~Degenerate(Del(i), k) }

C3_DegenerateNeverCounted ==
  /\ \A sid \in Sids : \A s \in Slots(sid) :
       PairAt(v, sid, s).surface_area >= v.min_surface_area
  /\ (call.n > 0 /\ call.extra = 0 /\ Degenerate(call.left, call.ngb))
       => call.ret = 0
  /\ BuildDone =>
       \A i \in LocalIds :
         part_is_active[i] = 1
           => parts[i].geometry.nface <= Cardinality(ProperNeighbours(i))

(***************************************************************************)
(* C4: a call whose right generator is local, active and has a lower       *)
(* Delaunay index than the left one allocates no pair and looks only at    *)
(* the span of the right generator: the first entry of that span whose     *)
(* pair has right_idx equal to left is appended once and 1 is returned; if *)
(* there is none, nothing changes and 0 is returned.                       *)
(***************************************************************************)
C4_LookupOnly ==
  [][ ( /\ AddPairCalled
        /\ call'.ngb < D.ngb_offset
        /\ call'.ngb < call'.left
        /\ part_is_active[call'.ngb - D.vertex_start] = 1 )
      =>
      LET left == call'.left - D.vertex_start
          g == parts[call'.ngb - D.vertex_start].geometry
          matches ==
            { q \in g.pair_connections_offset ..
                      (g.pair_connections_offset + g.nface - 1) :
                PairAt(v, ConnAt(v, q)[2], ConnAt(v, q)[1]).right_idx = left }
          top == v.cell_pair_connections.index
      IN  /\ v'.pair_index = v.pair_index
          /\ v'.pair_size = v.pair_size
          /\ v'.pairs = v.pairs
          /\ IF matches # {}
               THEN /\ call'.ret = 1
                    /\ v'.cell_pair_connections.index = top + 1
                    /\ ConnAt(v', top) = ConnAt(v, SetMin(matches))
                    /\ \A q \in 0 .. (top - 1) : ConnAt(v', q) = ConnAt(v, q)
               ELSE /\ call'.ret = 0
                    /\ v' = v ]_vars

\* A lookup that found the pair the right generator had stored before.
C4_Witness ==
  /\ call.n > 0
  /\ call.ngb < call.left
  /\ part_is_active[call.ngb - D.vertex_start] = 1
  /\ call.kind = "search"
  /\ call.ret = 1
  /\ ConnAt(v, v.cell_pair_connections.index - 1)[2] = 13

(***************************************************************************)
(* C5: after a build every pair of bucket 13 is referenced by exactly two  *)
(* cells: once in the span of its left generator and once in the span of   *)
(* its right generator.  Stated here for the pairs whose right generator   *)
(* is active (an inactive generator has no span at all).                   *)
(***************************************************************************)
C5_TwoSpans ==
  BuildDone =>
    \A s \in Slots(13) :
      LET p == PairAt(v, 13, s)
      IN  part_is_active[p.right_idx] = 1
            => /\ Cardinality(RefsIn(p.left_idx, s, 13)) = 1
               /\ Cardinality(RefsIn(p.right_idx, s, 13)) = 1
               /\ \A i \in LocalIds :
                    (part_is_active[i] = 1 /\ i # p.left_idx /\ i # p.right_idx)
                      => RefsIn(i, s, 13) = {}

(***************************************************************************)
(* C6: once the face between two local generators has been inserted by one *)
(* end point and reused by the other, a further voronoi_add_pair call for  *)
(* the same two generators, in either direction, returns 0, creates no     *)
(* pair and appends no connectivity entry.                                 *)
(***************************************************************************)
\* The face between local generators i and k is stored once and referenced
\* from both spans.
InsertedAndReused(i, k) ==
  /\ Cardinality(SlotsBetween(i, k)) = 1
  /\ \E s \in SlotsBetween(i, k) :
       /\ Cardinality(RefsIn(i, s, 13)) = 1
       /\ Cardinality(RefsIn(k, s, 13)) = 1

C6_ThirdCallRejected ==
  [][ ( /\ AddPairCalled
        /\ call'.extra = call.extra + 1
        /\ call.extra = 0
        /\ part_is_active[call'.ngb - D.vertex_start] = 1
        /\ InsertedAndReused(call'.left - D.vertex_start,
                             call'.ngb - D.vertex_start) )
      =>
      /\ call'.ret = 0
      /\ v'.pair_index = v.pair_index
      /\ v'.cell_pair_connections = v.cell_pair_connections ]_vars


(***************************************************************************)
(* C8: if a triangle around an active generator has a placeholder (dummy)  *)
(* vertex, i.e. a vertex index in [vertex_end, ngb_offset), voronoi_build  *)
(* ends in a fatal error at that triangle and takes no further step, and   *)
(* the coordinates of a placeholder vertex are never read.                 *)
(***************************************************************************)
Placeholder(k) == k >= D.vertex_end /\ k < D.ngb_offset

\* Triangle t belongs to the ring of an active generator.
TouchesActive(t) ==
  \E m \in 1 .. 3 :
    LET k == Triangle(D, t).vertices[m]
    IN  k >= D.vertex_start /\ k < D.vertex_end
          /\ part_is_active[k - D.vertex_start] = 1

HasPlaceholder(t) == \E m \in 1 .. 3 : Placeholder(Triangle(D, t).vertices[m])

\* The build never gets past such a triangle, ends in the error state when it
\* comes to it, and nothing follows the error.
C8_PlaceholderIsFatal ==
  /\ [](\A k \in reads : ~Placeholder(k))
  /\ [](\A t \in RealTriangles(D) :
          (TouchesActive(t) /\ HasPlaceholder(t))
            => (b.pc \in {"circum", "error"} /\ b.ti <= t - 3))
  /\ [][(b.pc = "circum" /\ TouchesActive(b.ti + 3) /\ HasPlaceholder(b.ti + 3))
         => b'.pc = "error"]_vars
  /\ [][b.pc # "error"]_vars

\* The build stopped at a triangle of an active generator's ring.
C8_Witness ==
  /\ b.pc = "error"
  /\ TouchesActive(b.ti + 3)
  /\ HasPlaceholder(b.ti + 3)
  /\ reads # {}

(***************************************************************************)
(* C9: voronoi_build builds no cell for an inactive generator: its         *)
(* geometry is never changed and connectivity entries are appended only    *)
(* for active generators, whose spans make up the whole queue.  An         *)
(* inactive local generator is never the left_idx of a pair; a call whose  *)
(* right generator is local and inactive never searches and stores a       *)
(* non-degenerate face as a new pair of bucket 13, so that after the build *)
(* there is exactly one such pair per active neighbour.                    *)
(***************************************************************************)
\* The slots of bucket 13 whose pair runs from a to i.
SlotsFromTo(a, i) ==
  { s \in Slots(13) :
      PairAt(v, 13, s).left_idx = a /\ PairAt(v, 13, s).right_idx = i }

C9_InactiveUntouched ==
  /\ [](\A sid \in Sids : \A s \in Slots(sid) :
          part_is_active[PairAt(v, sid, s).left_idx] = 1)
  /\ [](BuildDone =>
          /\ \A a, i \in LocalIds :
               (part_is_active[a] = 1 /\ part_is_active[i] = 0 /\ ShareFace(a, i))
                 => /\ Cardinality(SlotsFromTo(a, i)) = 1
                    /\ SlotsFromTo(i, a) = {}
          /\ \A q \in 0 .. (v.cell_pair_connections.index - 1) :
               Cardinality({ i \in LocalIds :
                             part_is_active[i] = 1 /\ q \in Span(i) }) = 1)
  /\ [][\A i \in LocalIds : part_is_active[i] = 0 => parts'[i] = parts[i]]_vars
  /\ [][v'.cell_pair_connections # v.cell_pair_connections
          => /\ AddPairCalled
             /\ part_is_active[call'.left - D.vertex_start] = 1]_vars
  /\ [][ ( /\ AddPairCalled
           /\ call'.extra = 0
           /\ call'.ngb >= D.vertex_start /\ call'.ngb < D.vertex_end
           /\ part_is_active[call'.ngb - D.vertex_start] = 0 )
         =>
         LET slot == v.pair_index[13]
             top == v.cell_pair_connections.index
         IN  IF Degenerate(call'.left, call'.ngb)
               THEN /\ call'.ret = 0
                    /\ v'.pair_index = v.pair_index
                    /\ v'.cell_pair_connections = v.cell_pair_connections
               ELSE /\ call'.ret = 1
                    /\ v'.pair_index = [v.pair_index EXCEPT ![13] = slot + 1]
                    /\ PairAt(v', 13, slot).left_idx = call'.left - D.vertex_start
                    /\ PairAt(v', 13, slot).right_idx = call'.ngb - D.vertex_start
                    /\ PairAt(v', 13, slot).sid = 13
                    /\ v'.cell_pair_connections.index = top + 1
                    /\ ConnAt(v', top) = <<slot, 13>> ]_vars

\* A finished build in which an inactive generator kept the geometry of an
\* earlier build while an active neighbour stored the face between them.
C9_Witness ==
  /\ BuildDone
  /\ \E a, i \in LocalIds :
       /\ part_is_active[a] = 1 /\ part_is_active[i] = 0
       /\ i < a
       /\ Cardinality(SlotsFromTo(a, i)) = 1
       /\ parts[i].geometry = StaleGeometry(1)
       /\ parts[a].geometry.nface > 0

Exchanged == fx'.n = fx.n + 1

\* The conserved-quantity accumulator of a particle as a vector.
Accumulator(p) ==
  <<p.flux.mass, p.flux.momentum[1], p.flux.momentum[2], p.flux.momentum[3],
    p.flux.energy>>

\* Component k of the accumulators, summed over all particles.
Total(k) ==
  Accumulator(hp[0])[k] + Accumulator(hp[1])[k] + Accumulator(hp[2])[k]

(***************************************************************************)
(* C2: every flux exchange subtracts one vector totflux from the           *)
(* accumulator of particle i and adds the same vector to the accumulator   *)
(* of particle j, also when j is not active (flux.dt <= 0), and touches no *)
(* other accumulator; so the sum of the accumulators over all particles    *)
(* keeps its initial value (zero).                                         *)
(***************************************************************************)
C2_FluxSymmetric ==
  /\ [](\A k \in 1 .. 5 : Total(k) = 0)
  /\ [][ Exchanged =>
         /\ \A k \in 1 .. 5 :
              /\ Accumulator(hp'[fx'.i])[k]
                   = Accumulator(hp[fx'.i])[k] - fx'.totflux[k]
              /\ Accumulator(hp'[fx'.j])[k]
                   = Accumulator(hp[fx'.j])[k] + fx'.totflux[k]
         /\ \A m \in HydroIds \ {fx'.i, fx'.j} : hp'[m] = hp[m] ]_vars

\* An exchange with an inactive right particle that moved a non-zero flux.
C2_Witness ==
  /\ fx.n >= 1
  /\ hp[fx.j].flux.dt <= 0
  /\ fx.totflux[1] # 0
  /\ hp[fx.j].flux.mass # 0

C11_NoStaleReuse ==
  /\ [](BuildDone =>
          \A i \in LocalIds :
            part_is_active[i] = 1 =>
              \A q \in Span(i) :
                /\ ConnAt(v, q)[2] \in Sids
                /\ ConnAt(v, q)[1] \in Slots(ConnAt(v, q)[2])
                /\ part_is_active[PairAt(v, ConnAt(v, q)[2],
                                         ConnAt(v, q)[1]).left_idx] = 1)
  /\ [][ (AddPairCalled /\ call'.kind = "search")
         =>
         LET r == call'.ngb - D.vertex_start
         IN  /\ r \in LocalIds
             /\ part_is_active[r] = 1
             /\ r < b.i
             /\ parts[r].geometry.pair_connections_offset + parts[r].geometry.nface
                  <= v.cell_pair_connections.index ]_vars

\* A second build next to a generator that kept the span of the first build,
\* on a grid whose memory still holds pairs of the first build.
C11_Witness ==
  /\ BuildDone
  /\ rst.n > 0
  /\ \E a, i \in LocalIds :
       /\ i < a
       /\ part_is_active[a] = 1 /\ part_is_active[i] = 0
       /\ parts[i].geometry.nface > 0
       /\ SlotsFromTo(a, i) # {}
  /\ Len(v.pairs[13]) > v.pair_index[13]

(***************************************************************************)
(* C12: voronoi_reset sets the 28 pair counts to 0 and empties the         *)
(* connectivity queue, leaves the capacity and the memory of every bucket  *)
(* and of the queue as they are, sets min_surface_area from dmin, and is   *)
(* called on an active grid, which stays active.                           *)
(***************************************************************************)
C12_ResetKeepsMemory ==
  [][ rst'.n = rst.n + 1
      =>
      /\ v.active = 1 /\ v'.active = 1
      /\ \A sid \in Sids : v'.pair_index[sid] = 0
      /\ v'.cell_pair_connections.index = 0
      /\ v'.pair_size = v.pair_size
      /\ v'.pairs = v.pairs
      /\ v'.cell_pair_connections.values = v.cell_pair_connections.values
      /\ v'.min_surface_area = MIN_REL_FACE_SIZE * rst'.dmin ]_vars

\* A reset of a grid with a grown bucket and a filled queue.
C12_Witness ==
  /\ b.pc = "reset"
  /\ rst.n > 0
  /\ \E sid \in Sids : v.pair_size[sid] > PairSizeInit /\ Len(v.pairs[sid]) > PairSizeInit
  /\ Len(v.cell_pair_connections.values) > 0
  /\ v.cell_pair_connections.index = 0
  /\ v.min_surface_area = MIN_REL_FACE_SIZE * rst.dmin
  /\ rst.dmin > 0

(***************************************************************************)
(* C13: the nface stored for an active generator is the number of          *)
(* connectivity entries appended during its ring walk (one per call that   *)
(* returns 1, nothing for a call that returns 0); they are the entries     *)
(* [pair_connections_offset, pair_connections_offset + nface) of the       *)
(* queue; the span of the first active generator starts at 0, each next    *)
(* span starts where the previous one ends and the last one ends at the    *)
(* top of the queue.                                                       *)
(***************************************************************************)
\* The active generators below i.
ActiveBelow(i) == { k \in LocalIds : k < i /\ part_is_active[k] = 1 }

RECURSIVE FacesOf(_)
\* The sum of the nface of a set of generators.
FacesOf(S) ==
  IF S = {} THEN 0
  ELSE LET k == SetMin(S)
       IN  parts[k].geometry.nface + FacesOf(S \ {k})

C13_SpansTileQueue ==
  /\ [](b.pc = "ring" =>
          v.cell_pair_connections.index = b.pair_connections_offset + b.nface)
  /\ [][ (AddPairCalled /\ call'.extra = 0) =>
           /\ v'.cell_pair_connections.index
                = v.cell_pair_connections.index + call'.ret
           /\ call'.ret \in {0, 1}
           /\ \A q \in 0 .. (v.cell_pair_connections.index - 1) :
                ConnAt(v', q) = ConnAt(v, q) ]_vars
  /\ [][ (b.pc = "ring" /\ b'.pc = "cells") =>
           /\ parts'[b.i].geometry.nface
                = v'.cell_pair_connections.index - b.pair_connections_offset
           /\ parts'[b.i].geometry.pair_connections_offset
                = b.pair_connections_offset ]_vars
  /\ [](BuildDone =>
          /\ \A i \in LocalIds :
               part_is_active[i] = 1 =>
                 parts[i].geometry.pair_connections_offset = FacesOf(ActiveBelow(i))
          /\ v.cell_pair_connections.index = FacesOf(ActiveBelow(Count(D))))

\* A finished build with at least two cells, one of which had a face
\* rejected and one of which reused a face.
C13_Witness ==
  /\ BuildDone
  /\ v.min_surface_area > 0
  /\ \E i, k \in LocalIds :
       /\ i < k
       /\ part_is_active[i] = 1 /\ part_is_active[k] = 1
       /\ parts[i].geometry.nface > 0
       /\ parts[k].geometry.pair_connections_offset >= parts[i].geometry.nface
       /\ parts[k].geometry.nface < 6
       /\ \E s \in Slots(13) : RefsIn(k, s, 13) # {} /\ PairAt(v, 13, s).left_idx = i

AfterExchange(h, job) ==
  LET after == FluxExchanged(h[job.i], h[job.j], job.totflux, job.vmax)
  IN  [h EXCEPT ![job.i] = after[1], ![job.j] = after[2]]

AllWorkersDone == \A w \in Workers : wk[w].pc = "done"

C15_NoLostUpdate ==
  AllWorkersDone =>
    /\ hp = AfterExchange(AfterExchange(ParallelParts, wk[1]), wk[2])
    /\ hp = AfterExchange(AfterExchange(ParallelParts, wk[2]), wk[1])

(***************************************************************************)
(* C16: after the faces of a generator have been processed, its running    *)
(* maximum signal velocity is the largest signal velocity among the        *)
(* processed faces it belongs to (0 without any), a value fixed by the set *)
(* of faces alone; so it is the same for every processing order.           *)
(***************************************************************************)
\* The signal velocities of the processed faces that generator k belongs to.
IncidentVelocities(k) ==
  { SignalVelocity(hp[f[1]], hp[f[2]], <<0, 0, 0>>) :
      f \in { g \in fx.faces : k \in {g[1], g[2]} } }

SetMax(S) == CHOOSE x \in S : \A y \in S : y <= x

C16_OrderFree ==
  \A k \in HydroIds :
    hp[k].timestepvars.vmax = SetMax(IncidentVelocities(k) \cup {0})

\* Two faces of one generator were processed, the faster one first.
C16_Witness ==
  /\ Cardinality(fx.faces) = 2
  /\ \E k \in HydroIds :
       /\ \A f \in fx.faces : k \in {f[1], f[2]}
       /\ Cardinality(IncidentVelocities(k)) = 2
       /\ hp[k].timestepvars.vmax > fx.vmax

(***************************************************************************)
(* C17: a flux exchange never lowers the maximum signal velocity of a      *)
(* particle: particle i and particle j both get the larger of their old    *)
(* value and the signal velocity of the face, the same candidate for both, *)
(* also when particle j is not active; no other particle changes.          *)
(***************************************************************************)
C17_MonotoneMax ==
  [][ Exchanged =>
        LET candidate == SignalVelocity(hp[fx'.i], hp[fx'.j], <<0, 0, 0>>)
        IN  /\ fx'.vmax = candidate
            /\ hp'[fx'.i].timestepvars.vmax
                 = Max2(hp[fx'.i].timestepvars.vmax, candidate)
            /\ hp'[fx'.j].timestepvars.vmax
                 = Max2(hp[fx'.j].timestepvars.vmax, candidate)
            /\ \A m \in HydroIds :
                 hp'[m].timestepvars.vmax >= hp[m].timestepvars.vmax ]_vars

\* An exchange raised the signal velocity of an inactive right particle
\* after an earlier one had left a larger value in the left particle.
C17_Witness ==
  /\ fx.n >= 2
  /\ hp[fx.j].flux.dt <= 0
  /\ hp[fx.j].timestepvars.vmax = fx.vmax
  /\ fx.vmax > 0
  /\ hp[fx.i].timestepvars.vmax > fx.vmax

(***************************************************************************)
(* C18 as stated: a stage that was repeated, run out of order or skipped   *)
(* is reported by the very next sequence check, whatever its location.     *)
(***************************************************************************)
\* A non-stuttering step that made a sequence check (a reset leaves loc -1).
CheckMade == rt' # rt /\ rt'.loc >= 0

Occurrences(trace, stage) ==
  Cardinality({n \in 1 .. Len(trace) : trace[n] = stage})

\* Some stage ran twice, or a stage ran after a later one.
RepeatedOrOutOfOrder(trace) ==
  \E m, n \in 1 .. Len(trace) : m < n /\ trace[m] >= trace[n]

\* A stage before location loc has not run.
SkippedBefore(trace, loc) ==
  \E stage \in RtStages : stage < loc /\ Occurrences(trace, stage) = 0

C18_ReportedAtNextCheck ==
  [][ (CheckMade /\ (RepeatedOrOutOfOrder(rt.trace)
                       \/ SkippedBefore(rt.trace, rt'.loc)))
        => rt'.pc = "error" ]_vars

(***************************************************************************)
(* C18 amended: a sequence check at location loc raises a fatal error      *)
(* unless the done-counter of every stage before loc is exactly 1; the     *)
(* counters count the runs of the stages since the last reset, so a check  *)
(* that returns has seen each stage before its location exactly once and   *)
(* in order.  A repeated stage is reported only by a check at a later      *)
(* location (checks at 0 and 1 test no stage), and nothing runs after the  *)
(* error.                                                                  *)
(***************************************************************************)
InOrderBelow(trace, loc) ==
  \A m, n \in 1 .. Len(trace) :
    (m < n /\ trace[m] < loc /\ trace[n] < loc) => trace[m] < trace[n]

C18_ReportedBeyondStage ==
  /\ [][ (CheckMade /\ \E stage \in RtStages :
                          stage < rt'.loc /\ DoneCounter(rt.p, stage) # 1)
           => rt'.pc = "error" ]_vars
  /\ [][ (CheckMade /\ rt'.pc # "error")
           => /\ \A stage \in RtStages :
                   stage < rt'.loc => Occurrences(rt.trace, stage) = 1
              /\ InOrderBelow(rt.trace, rt'.loc) ]_vars
  /\ [](\A stage \in RtStages :
          DoneCounter(rt.p, stage) = Occurrences(rt.trace, stage))
  /\ [][rt.pc # "error"]_vars

\* Injection ran twice; the check of the gradient stage reported it.
C18_Witness ==
  /\ rt.pc = "error"
  /\ rt.err = "injection"
  /\ rt.loc = 2
  /\ rt.trace = <<1, 1>>

(***************************************************************************)
(* C19: with the RT policy on and without MPI the end-of-step check ends   *)
(* in a fatal error exactly when the radiation emitted by all stars and    *)
(* the radiation absorbed by all gas particles differ, in this step or in  *)
(* the totals since the start; when both agree it returns normally; with   *)
(* MPI (or with the policy off) it returns at once and touches nothing.    *)
(***************************************************************************)
RECURSIVE SumOver(_, _)
\* The sum of field f over the records of sequence s.
SumOver(s, f) == IF s = <<>> THEN 0 ELSE Head(s)[f] + SumOver(Tail(s), f)

\* The radiation of the particles handed to the check differs.
EntryRadiationDiffers ==
  \/ SumOver(eos.entry.sparts, "debug_iact_hydro_inject")
       # SumOver(eos.entry.parts, "debug_iact_stars_inject")
  \/ SumOver(eos.entry.sparts, "debug_radiation_emitted_tot")
       # SumOver(eos.entry.parts, "debug_radiation_absorbed_tot")

CheckApplies == eos.policy_rt = 1 /\ eos.with_mpi = 0

C19_AbortsIffDiffers ==
  /\ eos.pc = "error" => (CheckApplies /\ EntryRadiationDiffers)
  /\ eos.pc = "done" => (CheckApplies /\ ~EntryRadiationDiffers)
  /\ eos.pc = "returned" =>
       /\ ~CheckApplies
       /\ eos.rt_props = StaleSums
       /\ eos.parts = eos.entry.parts
       /\ eos.sparts = eos.entry.sparts
  /\ (eos.pc \in {"hydro", "stars", "compare"}) => CheckApplies
  /\ (CheckApplies /\ eos.pc = "compare") =>
       (RadiationVaries(eos.rt_props) <=> EntryRadiationDiffers)

\* The check aborted although the sums of this step agree and are not zero:
\* the totals since the start differ.
C19_Witness ==
  /\ eos.pc = "error"
  /\ eos.rt_props.debug_radiation_emitted_this_step
       = eos.rt_props.debug_radiation_absorbed_this_step
  /\ eos.rt_props.debug_radiation_emitted_this_step > 0
  /\ Len(eos.parts) = 2

(***************************************************************************)
(* C20: a received update whose pixel lies outside the range of the        *)
(* receiving rank, [pix_per_rank * rank, pix_per_rank * rank +             *)
(* local_nr_pix), stops the run with a fatal error and is never added to   *)
(* the map: the pixels hold what they held before plus exactly the updates *)
(* applied before it, all of them inside the range, and nothing runs after *)
(* the error.                                                              *)
(***************************************************************************)
\* The pixel of an update is outside the part of the map rank r holds.
OutsideRank(r, contr) ==
  \/ contr.pixel < lm.map[r].pix_per_rank * r
  \/ contr.pixel >= lm.map[r].pix_per_rank * r + lm.map[r].local_nr_pix

\* The next update of rank r, which is applying its receive buffer.
NextUpdate(r) == lm.recvbuf[r][lm.i[r] + 1]

\* The sum of the first n received updates of rank r for local pixel p.
AppliedTo(r, p, n) ==
  LET hits == [m \in 1 .. n |->
                 IF lm.recvbuf[r][m].pixel = lm.map[r].pix_per_rank * r + p
                   THEN lm.recvbuf[r][m] ELSE [pixel |-> 0, value |-> 0]]
  IN  SumOver(hits, "value")

Applying(r) == lm.pc # <<>> /\ lm.pc[r] \in {"apply", "done", "error"}

C20_OutOfRangeAborts ==
  /\ [][ \A r \in Ranks :
           (/\ lm.pc[r] = "apply"
            /\ OutsideRank(r, NextUpdate(r))
            /\ lm'.pc[r] # "apply" \/ lm'.i[r] # lm.i[r])
             => /\ lm'.pc[r] = "error"
                /\ lm'.map[r].data = lm.map[r].data
                /\ lm'.i[r] = lm.i[r] ]_vars
  /\ [](\A r \in Ranks :
          Applying(r) =>
            /\ \A m \in 1 .. lm.i[r] : ~OutsideRank(r, lm.recvbuf[r][m])
            /\ \A p \in DOMAIN lm.map[r].data :
                 lm.map[r].data[p] = lm.before + AppliedTo(r, p, lm.i[r]))
  /\ [][NobodyAborted]_vars

\* A rank aborted at an update outside its range after it had applied an
\* update inside it.
C20_Witness ==
  \E r \in Ranks :
    /\ lm.pc[r] = "error"
    /\ lm.i[r] >= 1
    /\ OutsideRank(r, NextUpdate(r))
    /\ \E p \in DOMAIN lm.map[r].data : lm.map[r].data[p] > lm.before


(***************************************************************************)
(* C21: a cell whose accumulated volume is zero when its ring closes is    *)
(* skipped: nothing is divided by the volume and the geometry of the       *)
(* particle (volume, centroid, nface, connectivity offset) is not stored.  *)
(***************************************************************************)
C21_EmptyCellSkipped ==
  /\ [](\A i \in DOMAIN parts : parts[i].geometry.centroid[1] # NaN)
  /\ [][ (b.pc = "ring" /\ b'.pc = "cells" /\ b'.cell_volume = 0)
           => parts' = parts ]_vars

(***************************************************************************)
(* C22: in every bucket 0 <= pair_index <= pair_size and every slot ever   *)
(* written lies below pair_size, through all insertions and resets; the    *)
(* capacity of a bucket changes only when an insertion finds the bucket    *)
(* full, and then it exactly doubles, the other buckets keep their         *)
(* capacity, and every pair stored before keeps its slot and content.      *)
(***************************************************************************)
\* This step is a voronoi_add_pair call.
AddPairStep == call'.n = call.n + 1

\* The bucket an insertion for right generator ngb goes to.
InsertBucket(ngb) ==
  BucketSid(IF ngb < D.ngb_offset
              THEN LocalSid ELSE At(D.ngb_cell_sids, ngb - D.ngb_offset))

StoredPairsKept ==
  \A sid \in Sids : \A slot \in 0 .. (v.pair_index[sid] - 1) :
    PairAt(v', sid, slot) = PairAt(v, sid, slot)

C22_BucketsGrowByDoubling ==
  /\ [](\A sid \in Sids :
          /\ 0 <= v.pair_index[sid]
          /\ v.pair_index[sid] <= v.pair_size[sid]
          /\ Len(v.pairs[sid]) <= v.pair_size[sid])
  /\ [][ \A sid \in Sids :
           /\ v'.pair_size[sid] # v.pair_size[sid] =>
                /\ AddPairStep /\ call'.kind = "insert"
                /\ sid = InsertBucket(call'.ngb)
                /\ v.pair_index[sid] = v.pair_size[sid]
                /\ v'.pair_size[sid] = 2 * v.pair_size[sid]
           /\ (/\ AddPairStep /\ call'.kind = "insert"
               /\ sid = InsertBucket(call'.ngb)
               /\ v.pair_index[sid] = v.pair_size[sid])
                => v'.pair_size[sid] = 2 * v.pair_size[sid]
           /\ AddPairStep => StoredPairsKept ]_vars

\* A bucket was full, has doubled and holds its eleventh pair.
C22_Witness ==
  \E sid \in Sids :
    /\ v.pair_size[sid] = 2 * PairSizeInit
    /\ v.pair_index[sid] = PairSizeInit + 1
    /\ PairAt(v, sid, PairSizeInit).left_idx # Uninit
(***************************************************************************)
(* The gradient and the limiter pass.                                      *)
(***************************************************************************)
\* The last call of a pass, and the particles it was made on.
EstimateMade == fx.op = "slope_estimate"

LimiterMade == fx.op = "slope_limiter"

LeftBefore == fx.before[fx.i]

RightBefore == fx.before[fx.j]

OthersUntouched == \A k \in HydroIds \ {fx.i, fx.j} : hp[k] = fx.before[k]

\* pi - pj - shift of the last call, and its length.
Displacement == [k \in 1 .. 3 |-> LeftBefore.x[k] - RightBefore.x[k] - fx.shift[k]]

Distance == ISqrt(Dot3(Displacement, Displacement))

\* Twice the vector from the midpoint of pi and pj to the centroid of the face.
Correction ==
  [k \in 1 .. 3 |-> 2 * fx.centroid[k]
                      - (LeftBefore.x[k] + RightBefore.x[k] + fx.shift[k])]

\* The gradients of particle p after the face to q, seen along dx, is added.
Accumulated(p, q, dx) ==
  [f \in 1 .. 5 |->
     hydro_gradients_single_quantity(hydro_part_get_primitive_variables(p)[f],
                                     hydro_part_get_primitive_variables(q)[f],
                                     Correction, dx, Distance, fx.surface_area,
                                     p.gradients[f])]

\* C23: a call of runner_iact_slope_estimate with surface_area == 0 changes
\* nothing; neither the gradients of pi nor those of pj are modified.
C23_ZeroAreaNoEffect ==
  (EstimateMade /\ fx.surface_area = 0) => hp = fx.before

\* A zero-area call on two particles at the same (shifted) position, made
\* after an earlier face has given pi gradients.
C23_Witness ==
  /\ EstimateMade
  /\ fx.surface_area = 0
  /\ Distance = 0
  /\ LeftBefore.gradients # [f \in 1 .. 5 |-> <<0, 0, 0>>]

\* C24: for a face of non-zero area runner_iact_slope_estimate accumulates
\* into the gradients of all five fields of pi, and into those of pj if and
\* only if pj is active (flux.dt >= 0), then with the two values swapped,
\* the displacement negated and the same r, area and correction vector.
C24_EstimateAccumulates ==
  (EstimateMade /\ fx.surface_area # 0) =>
    /\ hp[fx.i] = [LeftBefore EXCEPT
                     !.gradients = Accumulated(LeftBefore, RightBefore, Displacement)]
    /\ hp[fx.j] = IF RightBefore.flux.dt >= 0
                    THEN [RightBefore EXCEPT
                            !.gradients =
                               Accumulated(RightBefore, LeftBefore,
                                           [k \in 1 .. 3 |-> -Displacement[k]])]
                    ELSE RightBefore
    /\ OthersUntouched

\* A face of non-zero area next to an inactive pj, added to gradients that
\* an earlier face has made non-zero.
C24_Witness ==
  /\ EstimateMade
  /\ fx.surface_area # 0
  /\ RightBefore.flux.dt < 0
  /\ LeftBefore.gradients # [f \in 1 .. 5 |-> <<0, 0, 0>>]
  /\ hp[fx.i].gradients # LeftBefore.gradients
  /\ \A f \in 1 .. 5, k \in 1 .. 3 : hp[fx.i].gradients[f][k] # NaN

\* C25: runner_iact_slope_limiter always collects the extrema for pi, and
\* for pj if and only if pj is active (flux.dt >= 0); a pj that is not
\* active is left unchanged.
C25_LimiterCollects ==
  LimiterMade =>
    /\ hp[fx.i] = hydro_slope_limit_cell_collect(LeftBefore, RightBefore,
                    [k \in 1 .. 3 |-> fx.centroid[k] - LeftBefore.x[k]])
    /\ hp[fx.i].limiter.lo[1] <= RightBefore.rho
    /\ hp[fx.i].limiter.hi[1] >= RightBefore.rho
    /\ hp[fx.j] = IF RightBefore.flux.dt >= 0
                    THEN hydro_slope_limit_cell_collect(RightBefore, LeftBefore,
                           [k \in 1 .. 3 |-> fx.centroid[k] - RightBefore.x[k]
                                               - fx.shift[k]])
                    ELSE RightBefore
    /\ OthersUntouched

\* A limiter call that widens the bounds of pi next to an inactive pj.
C25_Witness ==
  /\ LimiterMade
  /\ RightBefore.flux.dt < 0
  /\ hp[fx.i].limiter # LeftBefore.limiter
  /\ hp[fx.j] = RightBefore

(***************************************************************************)
(* C26: every pair stored by a build or rebuild, in any of the 28 buckets, *)
(* has as left_idx the container index (Delaunay index minus vertex_start) *)
(* of a local generator that is active in that build.                      *)
(***************************************************************************)
C26_LeftIsActiveLocal ==
  /\ [](\A sid \in Sids : \A s \in Slots(sid) :
          /\ PairAt(v, sid, s).left_idx \in LocalIds
          /\ part_is_active[PairAt(v, sid, s).left_idx] = 1)
  /\ [][ \A sid \in Sids :
           v'.pair_index[sid] = v.pair_index[sid] + 1
           => /\ AddPairCalled
              /\ PairAt(v', sid, v.pair_index[sid]).left_idx
                   = call'.left - D.vertex_start ]_vars

\* A finished rebuild of a tessellation with vertex_start > 0 in which a
\* particle is not active: pairs are stored in bucket 13 and in a ghost or
\* boundary bucket, and the memory of bucket 13 still holds, above its pair
\* count, a pair of the first build whose left generator is no longer active.
C26_Witness ==
  /\ BuildDone
  /\ rst.n > 0
  /\ D.vertex_start > 0
  /\ v.pair_index[13] > 0
  /\ \E sid \in Sids \ {13} : v.pair_index[sid] > 0
  /\ \E s \in v.pair_index[13] .. (Len(v.pairs[13]) - 1) :
       /\ PairAt(v, 13, s).left_idx \in LocalIds
       /\ part_is_active[PairAt(v, 13, s).left_idx] = 0

(***************************************************************************)
(* C27: in a tessellation with consistent neighbour / index_in_neighbour   *)
(* links the walk around every active generator ends by coming back to its *)
(* start triangle; it has then been in every triangle incident to the      *)
(* generator exactly once and has called voronoi_add_pair exactly once per *)
(* incident triangle, each time for another neighbour of the generator.    *)
(***************************************************************************)
IncidentTriangles(k) == { t \in RealTriangles(D) : TriangleHas(D, t, k) }

RingNeighbours(k) == { n \in 0 .. (Len(D.vertices) - 1) : Neighbours(D, k, n) }

Entries(s) == { s[n] : n \in 1 .. Len(s) }

NoRepeats(s) == \A n, m \in 1 .. Len(s) : n # m => s[n] # s[m]

WalkCloses == b.pc = "ring" /\ b'.pc = "cells"

C27_RingWalkTerminates ==
  /\ [](b.pc = "ring" =>
          /\ NoRepeats(b.visited)
          /\ Entries(b.visited) \subseteq IncidentTriangles(Del(b.i))
          /\ Len(b.tried) = Len(b.visited) - 1)
  /\ [][ WalkCloses =>
           /\ b.t1 = b.t0
           /\ Entries(b'.visited) = IncidentTriangles(Del(b.i))
           /\ Len(b'.tried) = Cardinality(IncidentTriangles(Del(b.i)))
           /\ NoRepeats(b'.tried)
           /\ Entries(b'.tried) = RingNeighbours(Del(b.i)) ]_vars
  /\ ((b.pc = "ring") ~> (b.pc = "cells" \/ b.pc = "done"))
  /\ <>(b.pc = "done" \/ b.pc = "error")

\* A finished build in which the last walk went around a generator with at
\* least five incident triangles.
C27_Witness ==
  /\ b.pc = "done"
  /\ Len(b.visited) >= 5
  /\ Len(b.tried) = Len(b.visited)
  /\ \E i, k \in LocalIds : i # k /\ part_is_active[i] = 1 /\ part_is_active[k] = 1

(***************************************************************************)
(* The bucket of a stored pair.                                            *)
(***************************************************************************)
\* A pair was stored in bucket sid in this step.
StoredIn(sid) == v'.pair_index[sid] = v.pair_index[sid] + 1

\* The sid the tessellation gives for the ghost vertex ngb.
GhostSid(ngb) == At(D.ngb_cell_sids, ngb - D.ngb_offset)

RECURSIVE VolumeOf(_)
\* The sum of the volumes stored in the particles of S.
VolumeOf(S) ==
  IF S = {} THEN 0
  ELSE LET k == SetMin(S)
       IN  parts[k].geometry.volume + VolumeOf(S \ {k})

\* The vertices of the ghosts.
Ghosts == D.ngb_offset .. (Len(D.vertices) - 1)

\* The lower and the upper end of the domain along coordinate c: half way
\* between the outermost local generator and the nearest ghost beyond it,
\* and the outermost local generator itself where there is no ghost.
DomainLow(c) ==
  LET lo == SetMin({ Vertex(D, Del(i))[c] : i \in LocalIds })
      below == { Vertex(D, g)[c] : g \in { h \in Ghosts : Vertex(D, h)[c] < lo } }
  IN  IF below = {} THEN lo ELSE (lo + SetMax(below)) \div 2

DomainHigh(c) ==
  LET hi == SetMax({ Vertex(D, Del(i))[c] : i \in LocalIds })
      above == { Vertex(D, g)[c] : g \in { h \in Ghosts : Vertex(D, h)[c] > hi } }
  IN  IF above = {} THEN hi ELSE (hi + SetMin(above)) \div 2

DomainVolume == (DomainHigh(1) - DomainLow(1)) * (DomainHigh(2) - DomainLow(2))

BuildEnded == b.pc = "done" \/ b.pc = "error"

C30_SpanHoldsOwnFaces ==
  BuildDone =>
    \A i \in LocalIds :
      part_is_active[i] = 1 =>
        \A q \in Span(i) :
          LET slot == ConnAt(v, q)[1]
              sid == ConnAt(v, q)[2]
          IN  \/ PairAt(v, sid, slot).left_idx = i
              \/ sid = 13 /\ PairAt(v, sid, slot).right_idx = i

(***************************************************************************)
(* C31: when voronoi_build aborts because of a placeholder vertex, it      *)
(* aborts in the circumcenter pass, before any pair is stored, any pair    *)
(* count or the connectivity queue is changed or any geometry is written:  *)
(* the grid and the geometry of all particles are as they were on entry.   *)
(***************************************************************************)
Aborts == b.pc # "error" /\ b'.pc = "error"

C31_AbortLeavesGridUntouched ==
  /\ [][ Aborts => b.pc = "circum" /\ HasPlaceholder(b.ti + 3)
                     /\ TouchesActive(b.ti + 3) ]_vars
  /\ [][ b.pc = "circum" => v' = v /\ parts' = parts ]_vars
  /\ [](b.pc \in {"circum", "error"} =>
          /\ call.n = 0
          /\ \A sid \in Sids : v.pair_index[sid] = 0
          /\ v.cell_pair_connections.index = 0
          /\ \A i, k \in LocalIds : parts[i].geometry = parts[k].geometry
          /\ parts[0].geometry \in {StaleGeometry(0), StaleGeometry(1)})

\* An aborted build, after circumcenters have been computed, of particles
\* that carry the geometry of an earlier step.
C31_Witness ==
  /\ b.pc = "error"
  /\ b.ti > 0
  /\ reads # {}
  /\ parts[0].geometry = StaleGeometry(1)
  /\ v.active = 1

(***************************************************************************)
(* C32: every circumcenter read by the ring walk of an active generator    *)
(* was computed in the first pass of the same build: that pass skips a     *)
(* triangle only if none of its three vertices is an active local          *)
(* generator, so the walk never reads an uninitialised Voronoi vertex.     *)
(***************************************************************************)
\* The first pass has written the circumcenter of triangle t.
Computed(t) == b.vertices[t - 3 + 1] # <<Uninit, Uninit>>

C32_WalkReadsComputed ==
  /\ (b.pc \in {"cells", "ring"} \/ BuildDone) =>
       \A t \in RealTriangles(D) : Computed(t) <=> TouchesActive(t)
  /\ b.pc = "ring" =>
       /\ \A n \in 1 .. Len(b.visited) : Computed(b.visited[n])
       /\ Computed(b.t1)
       /\ <<b.cx, b.cy>> # <<Uninit, Uninit>>

\* A walk that has gone through three triangles while the first pass has
\* left the circumcenter of another triangle uninitialised.
C32_Witness ==
  /\ b.pc = "ring"
  /\ Len(b.visited) >= 3
  /\ \E t \in RealTriangles(D) : ~Computed(t)

(***************************************************************************)
(* C33: in each of the five task sequences documented in                   *)
(* rt_debug_sequence_check (hydro resets the kick counter, kick2 and a     *)
(* starting kick1 each increment it) the kick-count check passes at every  *)
(* RT subcycle; for loc > 0 the check requires a count of 1 exactly when   *)
(* debug_nsubcycles == 0 and the zeroth RT cycle falls on a hydro-active   *)
(* main step and 2 in every other case, and a negative subcycle count is   *)
(* always an error.                                                        *)
(***************************************************************************)
\* The kick count the check asks of particle p.
RequiredKicks(p) ==
  IF p.debug_nsubcycles = 0 /\ p.debug_rt_zeroth_cycle_on_main_step # 0
    THEN 1 ELSE 2

KickCounts == 0 .. 3

C33_KickCheckPasses ==
  /\ rt.pc = "run" /\ rt.err = "none"
  /\ rt.todo # <<>> /\ Head(rt.todo)[1] = "rt" =>
       rt.p.debug_kicked = RequiredKicks(rt.p)
  /\ \A loc \in 0 .. 5, k \in KickCounts :
       LET p == [rt.p EXCEPT !.debug_kicked = k]
       IN  /\ rt_debug_sequence_check(p, loc) = "kick" <=>
                loc > 0 /\ k # RequiredKicks(p)
           /\ rt_debug_sequence_check([p EXCEPT !.debug_nsubcycles = -1], loc)
                = "kick" <=> loc > 0

\* Sequence 4 has been run to its end: subcycles with two kicks, a kick1
\* that did not count, and a zeroth subcycle after hydro and kick2.
C33_Witness ==
  /\ rt.scenario = 4
  /\ rt.todo = <<>>
  /\ rt.checks >= 16
  /\ rt.p.debug_kicked = 1
  /\ rt.p.debug_nsubcycles = 1

(***************************************************************************)
(* C34: the pixel-to-rank routing of the lightcone map is consistent: the  *)
(* local pixel counts of all ranks sum to total_nr_pix, and for every      *)
(* pixel index in [0, total_nr_pix) the destination rank                   *)
(* min(pixel / pix_per_rank, comm_size - 1) chosen by the sender owns that *)
(* pixel, so that the receiver's range check never fails for a valid       *)
(* pixel, for any comm_size <= total_nr_pix.                               *)
(***************************************************************************)
\* The maps of nr_ranks ranks sharing total_nr_pix pixels.
MapsOf(total_nr_pix, nr_ranks) ==
  [m \in 1 .. nr_ranks |->
     lightcone_map_init(total_nr_pix, m - 1, nr_ranks, <<>>, 0)]

\* maps, one per rank, route every valid pixel to the rank that holds it.
Routed(maps) ==
  LET total_nr_pix == maps[1].total_nr_pix
  IN  /\ SumOver(maps, "local_nr_pix") = total_nr_pix
      /\ \A pixel \in 0 .. (total_nr_pix - 1), m \in DOMAIN maps :
           LET dest == Dest(maps[m], [pixel |-> pixel, value |-> 0])
           IN  /\ dest \in 0 .. (Len(maps) - 1)
               /\ dest = IF pixel \div maps[m].pix_per_rank < Len(maps) - 1
                           THEN pixel \div maps[m].pix_per_rank
                           ELSE Len(maps) - 1
               /\ ~PixelOutOfRange(maps[dest + 1], pixel,
                                   maps[dest + 1].pix_per_rank * dest)

\* The routing of 1 .. MaxRanks ranks is tabulated once, before the update.
C34_RoutingConsistent ==
  /\ (\A r \in Ranks : lm.pc[r] \in {"start", "serial", "absent"}) =>
       \A nr_ranks \in 1 .. MaxRanks :
         \A total_nr_pix \in nr_ranks .. MaxPixels :
           Routed(MapsOf(total_nr_pix, nr_ranks))
  /\ Routed([m \in 1 .. lm.map[0].comm_size |-> lm.map[m - 1]])
  /\ \A r \in Ranks :
       lm.pc[r] = "error" =>
         NextUpdate(r).pixel \notin 0 .. (lm.map[r].total_nr_pix - 1)

\* The last rank has applied an update of a pixel beyond comm_size *
\* pix_per_rank, which the sender's clamp has routed to it.
C34_Witness ==
  /\ lm.with_mpi = 1
  /\ \A r \in Ranks : lm.pc[r] = "done"
  /\ \E m \in 1 .. Len(lm.recvbuf[comm_size - 1]) :
       /\ lm.recvbuf[comm_size - 1][m].pixel
            >= comm_size * lm.map[0].pix_per_rank
       /\ lm.map[comm_size - 1].data[lm.recvbuf[comm_size - 1][m].pixel
                                       - lm.map[0].pix_per_rank * (comm_size - 1)]
            > lm.before
  /\ lm.recvbuf[0] # <<>>

(***************************************************************************)
(* C35: lightcone_map_update_from_buffer applies every buffered            *)
(* contribution exactly once: afterwards the buffer is empty and each      *)
(* pixel's value has grown by exactly the sum of the values of the         *)
(* contributions buffered for that pixel (on one rank or summed over all   *)
(* ranks); in the MPI path every contribution is copied to its own slot of *)
(* the send buffer, grouped by destination rank, with the second-pass      *)
(* counts equal to the first-pass counts.                                  *)
(***************************************************************************)
RECURSIVE SendTo(_, _, _)
\* The updates of a buffer that go to rank dest, in their order.
SendTo(map, buffer, dest) ==
  IF buffer = <<>> THEN <<>>
  ELSE (IF Dest(map, Head(buffer)) = dest THEN <<Head(buffer)>> ELSE <<>>)
         \o SendTo(map, Tail(buffer), dest)

\* The updates all ranks had buffered, rank after rank.
AllBuffered == lm.buffered[0] \o lm.buffered[1]

\* The sum of the values of the updates of sequence s for pixel.
ValueFor(s, pixel) ==
  SumOver([m \in 1 .. Len(s) |->
             IF s[m].pixel = pixel THEN s[m] ELSE [pixel |-> pixel, value |-> 0]],
          "value")

\* Rank r has copied its updates to the send buffer.
Filled(r) == lm.pc[r] \in {"sent", "apply", "done", "error"}

C35_AppliedExactlyOnce ==
  /\ \A r \in Ranks :
       Filled(r) =>
         LET f == lm.filled[r]
             n == Len(lm.buffered[r])
         IN  /\ lm.map[r].buffer = <<>>
             /\ Len(f.sendbuf) = n
             /\ \A k \in 1 .. n :
                  /\ f.sendbuf[f.slot[k] + 1] = lm.buffered[r][k]
                  /\ \A j \in 1 .. n : j # k => f.slot[j] # f.slot[k]
                  /\ f.slot[k] >= f.send_offset[Dest(lm.map[r], lm.buffered[r][k])]
                  /\ f.slot[k] < f.send_offset[Dest(lm.map[r], lm.buffered[r][k])]
                                   + f.send_count[Dest(lm.map[r], lm.buffered[r][k])]
             /\ f.send_count = f.first_count
             /\ \A dest \in Ranks :
                  lm.sendbuf[r][dest] = SendTo(lm.map[r], lm.buffered[r], dest)
  /\ (\A r \in Ranks : lm.pc[r] = "done") =>
       \A r \in Ranks :
         \A p \in DOMAIN lm.map[r].data :
           lm.map[r].data[p]
             = lm.before + ValueFor(AllBuffered, lm.map[r].pix_per_rank * r + p)
  /\ (\A m \in 1 .. Len(AllBuffered) :
        AllBuffered[m].pixel \in 0 .. (lm.map[0].total_nr_pix - 1)) =>
       \A r \in Ranks : lm.pc[r] \notin {"error", "undefined"}
  /\ lm.pc[0] = "updated" =>
       /\ lm.map[0].buffer = <<>>
       /\ \A p \in DOMAIN lm.map[0].data :
            lm.map[0].data[p] = lm.before + ValueFor(lm.buffered[0], p)

\* Both ranks have applied what they received, each had buffered an update
\* for the other and both had one for the same pixel.
C35_Witness ==
  /\ \A r \in Ranks : lm.pc[r] = "done" /\ Len(lm.buffered[r]) = 2
  /\ \A r, dest \in Ranks : lm.sendbuf[r][dest] # <<>>
  /\ \E k, j \in 1 .. 2 : lm.buffered[0][k].pixel = lm.buffered[1][j].pixel

(***************************************************************************)
(* C36: a particle takes part in at most one SIDM kick over any sequence   *)
(* of runner_iact_sidm, sidm_reset and communicate_sidm_kick_to_gpart      *)
(* calls: a kick requires num_sidm < 1 for both particles, sets it to at   *)
(* least 1 for both, and no operation resets it.                           *)
(***************************************************************************)
C36_AtMostOneKick ==
  /\ [](\A k \in DOMAIN sd.gp : sd.kicks[k] <= 1)
  /\ [][ \A k \in DOMAIN sd.gp :
           /\ sd'.kicks[k] > sd.kicks[k] =>
                /\ sd.gp[k].sidm_data.num_sidm < 1
                /\ sd'.gp[k].sidm_data.num_sidm >= 1
           /\ sd'.gp[k].sidm_data.num_sidm >= sd.gp[k].sidm_data.num_sidm ]_vars

\* A pair has been kicked, its kick communicated and its counters reset,
\* and a later pair with one of its particles has been turned down.
C36_Witness ==
  /\ sd.refused = 1
  /\ \E s \in sd.scattered :
       /\ {s.i, s.j} \subseteq sd.told
       /\ sd.gp[s.i].sidm_data.sidm_flag = 0
       /\ sd.gp[s.i].sidm_data.num_sidm = 1

(***************************************************************************)
(* C37: after sidm_do_kick on a pair followed by                           *)
(* communicate_sidm_kick_to_gpart on both particles, the sum of the two    *)
(* particles' velocities v_full equals the sum before the kick, and both   *)
(* particles' sidm_flag and si_v_full are reset to zero.                   *)
(***************************************************************************)
C37_KickConservesVelocity ==
  \A s \in sd.scattered :
    {s.i, s.j} \subseteq sd.told =>
      /\ \A k \in 1 .. 3 :
           sd.gp[s.i].v_full[k] + sd.gp[s.j].v_full[k] = s.vi[k] + s.vj[k]
      /\ \A p \in {s.i, s.j} :
           /\ sd.gp[p].sidm_data.sidm_flag = 0
           /\ sd.gp[p].sidm_data.si_v_full = <<0, 0, 0>>

(***************************************************************************)
(* C38: rt_do_thermochemistry always terminates: it re-subdivides only     *)
(* while depth < max_tchem_recursion, every subdivision makes exactly two  *)
(* calls with half the time step and depth + 1, so the recursion depth     *)
(* never exceeds max_tchem_recursion, the sub-steps that are finally       *)
(* applied add up to the original dt, and an attempt that is rejected      *)
(* (energy change above 10%) writes nothing to the particle before         *)
(* recursing.                                                              *)
(***************************************************************************)
\* The outermost call has returned.
Returned == tc.stack = <<>>

\* The step makes a recursive call.
Recurses == Len(tc'.stack) = Len(tc.stack) + 1

\* The step ends the innermost call.
Returns == Len(tc'.stack) = Len(tc.stack) - 1

\* The call is not left at once: thermochemistry is on, there is gas and
\* time to advance.
Works ==
  tc.rt_props.skip_thermochemistry = 0 /\ tc.p.rho > 0 /\ tc.dt # 0

C38_ThermochemistryTerminates ==
  /\ <>(Returned \/ tc.status = "error")
  /\ [](\A n \in 1 .. Len(tc.stack) :
          /\ tc.stack[n].depth = n - 1
          /\ tc.stack[n].depth <= tc.rt_props.max_tchem_recursion
          /\ n < Len(tc.stack) => tc.stack[n].pc \in {"first", "second"})
  /\ [][ Recurses =>
           LET n == Len(tc.stack)
           IN  /\ tc.stack[n].depth < tc.rt_props.max_tchem_recursion
               /\ 2 * tc'.stack[n + 1].dt = tc.stack[n].dt
               /\ tc'.stack[n + 1].depth = tc.stack[n].depth + 1
               /\ tc'.stack[n + 1].pc = "entry"
               /\ \/ tc.stack[n].pc = "entry" /\ tc'.stack[n].pc = "first"
                  \/ tc.stack[n].pc = "first" /\ tc'.stack[n].pc = "second"
               /\ tc'.p = tc.p /\ tc'.applied = tc.applied ]_vars
  /\ [][ Returns => tc.stack[Len(tc.stack)].pc \in {"entry", "second"} ]_vars
  /\ [](Returned /\ tc.status = "run" =>
          tc.applied = IF Works THEN tc.dt ELSE 0)

\* The call has returned after three sub-steps: one half of the time step
\* and two quarters, at the largest depth allowed.
C38_Witness ==
  /\ Returned
  /\ tc.leaves = 3
  /\ tc.deepest = 2
  /\ tc.rt_props.max_tchem_recursion = 2
  /\ tc.applied = tc.dt
  /\ tc.dt = 16

====
